---- MODULE Spec2Model ----
(***************************************************************************)
(* A model of the ice_engine editor canvas (GameCanvas), its exported      *)
(* stand-alone loop, and the App-level prefab handlers.                     *)
(*                                                                         *)
(* Time is held in units of 1/3000 s, so that 1/60 s, 0.05 s and 0.1 s are  *)
(* whole numbers.  JavaScript numbers are exact rationals [n, d] with       *)
(* d > 0; every non-finite value (NaN, +-Infinity) is the one value with    *)
(* d = 0, which compares false with everything, as NaN does.               *)
(***************************************************************************)
EXTENDS Integers, Sequences, FiniteSets, TLC

VARIABLES
    scene,          \* App state `scene`: [entities, fixedTimestep, zoom, targetId]
    assets,         \* App state `assets`: sequence of prefab assets
    nextId,         \* source of crypto.randomUUID() values
    isPlaying,      \* App state `isPlaying`
    entitiesRef,    \* GameCanvas entitiesRef.current: the working copy
    particlesRef,   \* GameCanvas particlesRef.current: entity id -> pool
    matterBodies,   \* GameCanvas matterBodiesRef.current: entity id -> body
    matterEngine,   \* GameCanvas matterEngineRef.current # null
    accumulator,    \* GameCanvas accumulatorRef.current
    scheduled,      \* a requestAnimationFrame callback of the loop is pending
    loopScene,      \* the scene captured by the closure of the running loop
    logs,           \* console.error records, oldest first
    trace,          \* what the last tick did, in order
    frames,         \* ticks run so far
    elapsed,        \* sum of the dt values passed to update() since Play
    host,           \* "editor" or "export": which loop this run models
    canvas,         \* [w, h]: canvas.width, canvas.height
    cameraOffset,   \* GameCanvas cameraOffset.current / export camX, camY
    drawn,          \* what the last draw() placed: entity id -> pixel origin
    selectedEntityId,   \* App state `selectedEntityId`, 0 for null
    isDragging,     \* GameCanvas state `isDragging`
    isResizing,     \* GameCanvas state `isResizing`: a handle, "" for null
    isPanning,      \* GameCanvas state `isPanning`
    dragOffset,     \* GameCanvas dragOffset.current
    resizeStart,    \* GameCanvas resizeStart.current
    lastPanPos,     \* GameCanvas lastPanPos.current
    events,         \* pointer and wheel events handled so far
    gameView,       \* the refs of the second, read-only GameCanvas App mounts
                    \* while playing (the Game view)
    imageCache,     \* window.imageCache / export imageCache: URL -> state of its Image
    imageLoads,     \* URL -> how many times `new Image().src = URL` ran
    painted,        \* the drawImage calls of the last draw(), in order
    input,          \* App inputManagerRef.current: the InputManager's fields
    objectPool,     \* an ObjectPool a script made: its pool and the objects it handed out
    sound           \* the SoundManager: context, buffers, BGM source, sources started

pointerState == << selectedEntityId, isDragging, isResizing, isPanning, dragOffset,
                   resizeStart, lastPanPos, events >>

vars == << scene, assets, nextId, isPlaying, entitiesRef, particlesRef,
           matterBodies, matterEngine, accumulator, scheduled, loopScene,
           logs, trace, frames, elapsed, host, canvas, cameraOffset, drawn,
           selectedEntityId, isDragging, isResizing, isPanning, dragOffset,
           resizeStart, lastPanPos, events, gameView, imageCache, imageLoads, painted,
           input, objectPool, sound >>

libState == << objectPool, sound >>

imageState == << imageCache, imageLoads, painted >>

-----------------------------------------------------------------------------
(* Units and numbers *)

Second == 3 * 1000

Min(a, b) == IF a < b THEN a ELSE b

Abs(x) == IF x < 0 THEN -x ELSE x

RECURSIVE Gcd(_, _)
Gcd(a, b) == IF b = 0 THEN a ELSE Gcd(b, a % b)

NaN == [n |-> 0, d |-> 0]

Reduce(n, d, g) ==
    IF d < 0 THEN [n |-> -(n \div g), d |-> -(d \div g)]
    ELSE [n |-> n \div g, d |-> d \div g]

Sign(n) == IF n > 0 THEN 1 ELSE IF n < 0 THEN -1 ELSE 0

\* The rational n/d in lowest terms.  A zero denominator is non-finite:
\* 1/0 is Infinity, -1/0 is -Infinity and 0/0 is NaN.
Q(n, d) == IF d = 0 THEN [n |-> Sign(n), d |-> 0] ELSE Reduce(n, d, Gcd(Abs(n), Abs(d)))

I(i) == [n |-> i, d |-> 1]

IsNaN(a) == a.d = 0 /\ a.n = 0

IsFinite(a) == a.d # 0

NumAdd(a, b) ==
    IF IsNaN(a) \/ IsNaN(b) THEN NaN
    ELSE IF ~IsFinite(a) /\ ~IsFinite(b) THEN (IF a.n = b.n THEN a ELSE NaN)
    ELSE Q(a.n * b.d + b.n * a.d, a.d * b.d)

NumSub(a, b) ==
    IF IsNaN(a) \/ IsNaN(b) THEN NaN
    ELSE IF ~IsFinite(a) /\ ~IsFinite(b) THEN (IF a.n # b.n THEN a ELSE NaN)
    ELSE Q(a.n * b.d - b.n * a.d, a.d * b.d)

NumMul(a, b) == IF IsNaN(a) \/ IsNaN(b) THEN NaN ELSE Q(a.n * b.n, a.d * b.d)

\* x / 0 is Infinity with the sign of x, and 0 / 0 is NaN
NumDiv(a, b) ==
    IF IsNaN(a) \/ IsNaN(b) THEN NaN
    ELSE IF b.n < 0 THEN Q(-(a.n * b.d), -(a.d * b.n))
    ELSE Q(a.n * b.d, a.d * b.n)

NumLt(a, b) ==
    /\ ~IsNaN(a) /\ ~IsNaN(b)
    /\ IF ~IsFinite(a) /\ ~IsFinite(b) THEN a.n < b.n ELSE a.n * b.d < b.n * a.d

NumLe(a, b) ==
    /\ ~IsNaN(a) /\ ~IsNaN(b)
    /\ IF ~IsFinite(a) /\ ~IsFinite(b) THEN a.n <= b.n ELSE a.n * b.d <= b.n * a.d

NumGt(a, b) == NumLt(b, a)

NumGe(a, b) == NumLe(b, a)

\* JavaScript's %: the remainder takes the sign of the dividend; x % 0 is NaN.
NumMod(a, b) ==
    IF IsNaN(a) \/ IsNaN(b) \/ b.n = 0 \/ ~IsFinite(a) THEN NaN
    ELSE IF ~IsFinite(b) THEN a
    ELSE LET x == Abs(a.n) * b.d
             y == Abs(b.n) * a.d
             r == x % y
         IN  Q((IF a.n < 0 THEN -1 ELSE 1) * r, a.d * b.d)

-----------------------------------------------------------------------------
(* Entities.  A name is a sequence of words.  An entity's object graph is `fields`: a function from the     *)
(* paths that exist (sequences of property names, <<>> the entity itself)   *)
(* to what is there: an object, a number, or null.                          *)

Obj == [k |-> "obj", n |-> 0, d |-> 0]

Null == [k |-> "null", n |-> 0, d |-> 0]

Num(q) == [k |-> "num", n |-> q.n, d |-> q.d]

ValOf(v) == [n |-> v.n, d |-> v.d]

PosX == << "transform", "position", "x" >>

PosY == << "transform", "position", "y" >>

IsPrefix(p, q) == Len(p) <= Len(q) /\ SubSeq(q, 1, Len(p)) = p

\* obj[key] = value on the object at `parent`: the property is created or
\* replaced, and whatever hung below a replaced object is gone.
SetField(fields, parent, key, value) ==
    LET p == Append(parent, key)
        keep == { q \in DOMAIN fields : ~IsPrefix(p, q) }
    IN  [q \in keep \cup {p} |-> IF q = p THEN value ELSE fields[q]]

HasPhysics(e) == << "physics" >> \in DOMAIN e.fields /\ e.fields[<< "physics" >>].k = "obj"

GetNum(e, p) == ValOf(e.fields[p])

-----------------------------------------------------------------------------
(* update(): physics read-back of one entity (types.ts 381-387) *)

Rotation == << "transform", "rotation" >>

\* A body's angle is held in units of pi/180 rad, so body.angle * 180 / PI
\* is the stored number.
SyncPhysics(e, bodies) ==
    IF HasPhysics(e) /\ e.id \in DOMAIN bodies
    THEN [e EXCEPT !.fields =
            SetField(SetField(SetField(@, << "transform", "position" >>, "x",
                                       Num(bodies[e.id].x)),
                              << "transform", "position" >>, "y", Num(bodies[e.id].y)),
                     << "transform" >>, "rotation", Num(bodies[e.id].angle))]
    ELSE e

-----------------------------------------------------------------------------
(* update(): particles of one entity (types.ts 389-429) *)

\* A Math.random() result u is held in thousandths: u in 0..999.
RandomUnit == 10 * 100

RECURSIVE AgePoolKeepsDead(_, _, _)
\* Aging that moves every particle and splices none out
AgePoolKeepsDead(pool, i, dt) ==
    IF i < 1 THEN pool
    ELSE AgePoolKeepsDead([pool EXCEPT ![i] =
                              [@ EXCEPT !.life = pool[i].life - dt,
                                        !.x = NumAdd(@, NumMul(pool[i].vx, Q(dt, Second))),
                                        !.y = NumAdd(@, NumMul(pool[i].vy, Q(dt, Second)))]],
                          i - 1, dt)

RECURSIVE AgePool(_, _, _)
\* for (i = pool.length - 1; i >= 0; i--): age, then splice out or move
AgePool(pool, i, dt) ==
    IF i < 1 THEN pool
    ELSE LET life == pool[i].life - dt
         IN  IF life <= 0
             THEN AgePool(SubSeq(pool, 1, i - 1) \o SubSeq(pool, i + 1, Len(pool)), i - 1, dt)
             ELSE AgePool([pool EXCEPT ![i] =
                              [@ EXCEPT !.life = life,
                                        !.x = NumAdd(@, NumMul(pool[i].vx, Q(dt, Second))),
                                        !.y = NumAdd(@, NumMul(pool[i].vy, Q(dt, Second)))]],
                          i - 1, dt)

\* emissionRate particles in every step, whatever dt is
EmitCountPerStep(cfg, dt, u) == cfg.emissionRate

\* whole + (Math.random() < frac ? 1 : 0), emissionRate in particles per second
EmitCount(cfg, dt, u) ==
    LET toEmit == cfg.emissionRate * dt
        whole == toEmit \div Second
        frac == toEmit - whole * Second
    IN  whole + (IF u * Second < frac * RandomUnit THEN 1 ELSE 0)

\* cos and sin of a whole number of quarter turns, in degrees
CosDeg(a) == CASE a % 360 = 0 -> 1 [] a % 360 = 90 -> 0 [] a % 360 = 180 -> -1 [] a % 360 = 270 -> 0

SinDeg(a) == CASE a % 360 = 0 -> 0 [] a % 360 = 90 -> 1 [] a % 360 = 180 -> 0 [] a % 360 = 270 -> -1

\* x + (Math.random() - 0.5) * range
Jitter(x, u, range) == x + ((u - RandomUnit \div 2) * range) \div RandomUnit

NewParticle(e, cfg, r) ==
    LET angle == Jitter(cfg.angle, r.angle, cfg.spread)
        speed == Jitter(cfg.speed, r.speed, cfg.speedRange)
        life == Jitter(cfg.lifetime, r.life, cfg.lifetimeRange)
    IN  [x |-> GetNum(e, PosX), y |-> GetNum(e, PosY),
         vx |-> I(CosDeg(angle) * speed), vy |-> I(SinDeg(angle) * speed),
         life |-> life, maxLife |-> life]

\* The guard of the emission loop: pool.length < maxParticles
PoolHasRoom(pool, cfg) == Len(pool) < cfg.maxParticles

RECURSIVE EmitLoop(_, _, _, _, _)
\* while (emitCount > 0 && pool.length < maxParticles) { push; emitCount-- }
EmitLoop(pool, e, cfg, emitCount, draws) ==
    IF emitCount > 0 /\ PoolHasRoom(pool, cfg)
    THEN EmitLoop(Append(pool, NewParticle(e, cfg, Head(draws))), e, cfg,
                  emitCount - 1, Tail(draws))
    ELSE pool

\* How many particles the emission loop will push: the draws it consumes.
SpawnNeed(n, cfg, emitCount) ==
    IF cfg.emitting /\ emitCount > 0 /\ cfg.maxParticles > n
    THEN Min(emitCount, cfg.maxParticles - n)
    ELSE 0

HasEmitter(e) == e.particles.present

PoolOf(pools, id) == IF id \in DOMAIN pools THEN pools[id] ELSE << >>

UpdateParticles(e, pool, dt, r) ==
    IF e.particles.emitting
    THEN EmitLoop(AgePool(pool, Len(pool), dt), e, e.particles,
                  EmitCount(e.particles, dt, r.emit), r.spawn)
    ELSE AgePool(pool, Len(pool), dt)

-----------------------------------------------------------------------------
(* update(): property animations of one entity (types.ts 431-475) *)

\* The end test with >= in place of >
LoopLogicAtEnd(anim, ct, maxTime) ==
    IF NumGe(ct, maxTime)
    THEN IF anim.loop
         THEN [anim EXCEPT !.currentTime = NumMod(ct, maxTime)]
         ELSE [anim EXCEPT !.currentTime = maxTime, !.playing = FALSE]
    ELSE [anim EXCEPT !.currentTime = ct]

\* A loop that restarts at 0 in place of the remainder
LoopLogicRestart(anim, ct, maxTime) ==
    IF NumGt(ct, maxTime)
    THEN IF anim.loop
         THEN [anim EXCEPT !.currentTime = I(0)]
         ELSE [anim EXCEPT !.currentTime = maxTime, !.playing = FALSE]
    ELSE [anim EXCEPT !.currentTime = ct]

\* An end that clamps the cursor and leaves the animation playing
LoopLogicKeepsPlaying(anim, ct, maxTime) ==
    IF NumGt(ct, maxTime)
    THEN IF anim.loop
         THEN [anim EXCEPT !.currentTime = NumMod(ct, maxTime)]
         ELSE [anim EXCEPT !.currentTime = maxTime]
    ELSE [anim EXCEPT !.currentTime = ct]

\* The loop logic on the advanced cursor ct; maxTime is the time of the last
\* keyframe.
LoopLogic(anim, ct, maxTime) ==
    IF NumGt(ct, maxTime)
    THEN IF anim.loop
         THEN [anim EXCEPT !.currentTime = NumMod(ct, maxTime)]
         ELSE [anim EXCEPT !.currentTime = maxTime, !.playing = FALSE]
    ELSE [anim EXCEPT !.currentTime = ct]

\* anim.currentTime += dt, then the loop logic
AdvanceCursor(anim, dt) ==
    LoopLogic(anim, NumAdd(anim.currentTime, I(dt)), I(anim.keyframes[Len(anim.keyframes)].time))

FirstOf(hits) == CHOOSE x \in hits : \A y \in hits : x <= y

PairAt(kfs, hits) ==
    IF hits = {} THEN << kfs[1], kfs[Len(kfs)] >>
    ELSE << kfs[FirstOf(hits)], kfs[FirstOf(hits) + 1] >>

\* No scan: the first and the last keyframe
BracketEnds(kfs, ct) == << kfs[1], kfs[Len(kfs)] >>

\* for (i = 0; i < length - 1; i++) if (ct >= kf[i].time && ct <= kf[i+1].time)
\* { kf1 = kf[i]; kf2 = kf[i+1]; break }: the first bracketing pair, else
\* the first and the last keyframe.
Bracket(kfs, ct) ==
    PairAt(kfs, { i \in 1 .. Len(kfs) - 1 :
                    NumGe(ct, I(kfs[i].time)) /\ NumLe(ct, I(kfs[i + 1].time)) })

\* t = (ct - kf1.time) / (kf2.time - kf1.time); kf1.value + (kf2.value - kf1.value) * t
Lerp(kf1, kf2, ct) ==
    NumAdd(I(kf1.value),
           NumMul(I(kf2.value - kf1.value),
                  NumDiv(NumSub(ct, I(kf1.time)), I(kf2.time - kf1.time))))

LerpPair(kf, ct) == Lerp(kf[1], kf[2], ct)

\* target[part]: a property read.  Reading a property of undefined or null
\* throws a TypeError; a number has no own properties.
Child(fields, cur, part) ==
    IF cur.k \in {"undef", "null"} THEN [k |-> "throw", path |-> cur.path]
    ELSE IF cur.k = "obj" /\ Append(cur.path, part) \in DOMAIN fields
         THEN [k |-> fields[Append(cur.path, part)].k, path |-> Append(cur.path, part)]
         ELSE [k |-> "undef", path |-> Append(cur.path, part)]

RECURSIVE Walk(_, _, _, _)
\* let target = entity; for (i = 0; i < parts.length - 1; i++) target = target[parts[i]]
Walk(fields, cur, parts, i) ==
    IF i > Len(parts) - 1 \/ cur.k = "throw" THEN cur
    ELSE Walk(fields, Child(fields, cur, parts[i]), parts, i + 1)

\* if (target): undefined, null, 0 and NaN are falsy
Truthy(fields, cur) ==
    \/ cur.k = "obj"
    \/ cur.k = "num" /\ fields[cur.path].n # 0

\* if (target) target[last] = value.  On a number the store throws in strict
\* code (the editor's modules) and does nothing in the exported script.
Store(fields, cur, last, value, strict) ==
    IF cur.k = "throw" THEN [fields |-> fields, how |-> "threw"]
    ELSE IF ~Truthy(fields, cur) THEN [fields |-> fields, how |-> "skipped"]
    ELSE IF cur.k = "obj"
         THEN [fields |-> SetField(fields, cur.path, last, Num(value)), how |-> "applied"]
         ELSE [fields |-> fields, how |-> IF strict THEN "threw" ELSE "skipped"]

\* const parts = anim.property.split('.'); walk to the parent; store
Apply(fields, parts, value, strict) ==
    Store(fields, Walk(fields, [k |-> "obj", path |-> << >>], parts, 1),
          parts[Len(parts)], value, strict)

Animated(a, r) == [fields |-> r.fields, anim |-> a, how |-> r.how]

\* The animation a with its cursor already advanced: bracket, lerp, apply
ApplyAnimation(fields, a, strict) ==
    Animated(a, Apply(fields, a.property,
                      LerpPair(Bracket(a.keyframes, a.currentTime), a.currentTime), strict))

UpdateAnimation(fields, anim, dt, strict) ==
    IF anim.playing /\ Len(anim.keyframes) > 1
    THEN ApplyAnimation(fields, AdvanceCursor(anim, dt), strict)
    ELSE [fields |-> fields, anim |-> anim, how |-> "idle"]

Ev(i, what, j, how) == [i |-> i, what |-> what, j |-> j, how |-> how]

RECURSIVE AnimLoop(_, _, _, _, _, _)
RECURSIVE AnimNext(_, _, _, _, _, _, _)
\* entity.propertyAnimations.forEach(...): an exception leaves the loop
AnimLoop(e, i, j, dt, strict, tr) ==
    IF j > Len(e.anims) THEN [e |-> e, trace |-> tr, threw |-> FALSE]
    ELSE AnimNext(e, i, j, dt, strict, tr, UpdateAnimation(e.fields, e.anims[j], dt, strict))

\* r is what animation j did: the entity is mutated in place either way
AnimNext(e, i, j, dt, strict, tr, r) ==
    IF r.how = "threw"
    THEN [e |-> [e EXCEPT !.fields = r.fields, !.anims[j] = r.anim],
          trace |-> Append(tr, Ev(i, "anim", j, r.how)), threw |-> TRUE]
    ELSE AnimLoop([e EXCEPT !.fields = r.fields, !.anims[j] = r.anim], i, j + 1, dt, strict,
                  Append(tr, Ev(i, "anim", j, r.how)))

-----------------------------------------------------------------------------
(* update(): the script of one entity (types.ts 477-489) *)

HasScript(e) == e.script.type = "custom" /\ e.script.content # ""

\* What the body "move" does: entity.transform.position.x += 100 * dt
Moved(e, dt) ==
    SetField(e.fields, << "transform", "position" >>, "x",
             Num(NumAdd(GetNum(e, PosX), Q(100 * dt, Second))))

\* The same call without the try/catch around it: the exception escapes.
RunScriptUncaught(e, named, dt) ==
    IF e.script.content = "throw"
    THEN [escapes |-> TRUE, logged |-> << >>, how |-> "threw", fields |-> e.fields]
    ELSE [escapes |-> FALSE, logged |-> << >>, how |-> "done",
          fields |-> IF e.script.content = "move" THEN Moved(e, dt) ELSE e.fields]

\* new Function(..., content) and its call, inside try/catch: "throw" stands
\* for a body that throws (or does not compile), "move" for one that writes
\* the entity's position, anything else returns without effect.  Returns
\* whether an exception escapes the catch, what console.error is given (the
\* editor names the entity, the exported loop does not) and the entity's
\* fields afterwards.
RunScript(e, named, dt) ==
    IF e.script.content = "throw"
    THEN [escapes |-> FALSE, logged |-> << IF named THEN e.name ELSE << >> >>, how |-> "threw",
          fields |-> e.fields]
    ELSE [escapes |-> FALSE, logged |-> << >>, how |-> "done",
          fields |-> IF e.script.content = "move" THEN Moved(e, dt) ELSE e.fields]

ScriptOf(e, named, dt) ==
    IF HasScript(e) THEN RunScript(e, named, dt)
    ELSE [escapes |-> FALSE, logged |-> << >>, how |-> "none", fields |-> e.fields]

-----------------------------------------------------------------------------
(* update(): the per-entity body of entitiesRef.current.map (types.ts 380-492) *)

\* particlesRef.current after the particle block of entity e
PoolsAfter(pools, e, dt, r) ==
    IF HasEmitter(e)
    THEN [id \in DOMAIN pools \cup {e.id} |->
            IF id = e.id THEN UpdateParticles(e, PoolOf(pools, e.id), dt, r) ELSE pools[id]]
    ELSE pools

RECURSIVE UpdateEntities(_, _, _, _, _, _)
RECURSIVE AfterSync(_, _, _, _, _, _, _)
RECURSIVE AfterAnims(_, _, _, _, _, _, _, _)
RECURSIVE AfterScript(_, _, _, _, _, _, _, _, _)
\* The particle block run on the entity as it was before the read-back
AfterSyncEmitsFirst(st, i, dt, rnd, bodies, strict, e1) ==
    AfterAnims(st, i, dt, rnd, bodies, strict, PoolsAfter(st.pools, st.ents[i], dt, rnd[i]),
               AnimLoop(e1, i, 1, dt, strict,
                        st.trace \o << Ev(i, "particles", 0, "done"), Ev(i, "sync", 0, "done") >>))

\* st = [ents, pools, logs, trace, threw]; entities are mutated in place, so
\* what was done before an exception stays done.  `strict` tells the editor's
\* module code from the exported script.
UpdateEntities(st, i, dt, rnd, bodies, strict) ==
    IF i > Len(st.ents) \/ st.threw THEN st
    ELSE AfterSync(st, i, dt, rnd, bodies, strict, SyncPhysics(st.ents[i], bodies))

\* e1 is entity i after the physics read-back: particles, then animations
AfterSync(st, i, dt, rnd, bodies, strict, e1) ==
    AfterAnims(st, i, dt, rnd, bodies, strict, PoolsAfter(st.pools, e1, dt, rnd[i]),
               AnimLoop(e1, i, 1, dt, strict,
                        st.trace \o << Ev(i, "sync", 0, "done"), Ev(i, "particles", 0, "done") >>))

\* an is what the animations left: an exception ends update(), else the script
AfterAnims(st, i, dt, rnd, bodies, strict, pools1, an) ==
    IF an.threw
    THEN [ents |-> [st.ents EXCEPT ![i] = an.e], pools |-> pools1,
          logs |-> st.logs, trace |-> an.trace, threw |-> TRUE]
    ELSE AfterScript(st, i, dt, rnd, bodies, strict, pools1, an, ScriptOf(an.e, strict, dt))

AfterScript(st, i, dt, rnd, bodies, strict, pools1, an, sc) ==
    UpdateEntities([ents |-> [st.ents EXCEPT ![i] = [an.e EXCEPT !.fields = sc.fields]],
                    pools |-> pools1, logs |-> st.logs \o sc.logged,
                    trace |-> Append(an.trace, Ev(i, "script", 0, sc.how)),
                    threw |-> sc.escapes],
                   i + 1, dt, rnd, bodies, strict)

-----------------------------------------------------------------------------
(* Physics bridge *)

\* scene.physics?.fixedTimestep || 1/60: 0 stands for an absent setting
DefaultFixedTimestep == Second \div 60

FixedTimestep(sc) == IF sc.fixedTimestep = 0 THEN DefaultFixedTimestep ELSE sc.fixedTimestep

\* update(Math.min(dt, 0.1))
DtCap == Second \div 10

\* Matter.Engine.update(engine, fixedTimestep * 1000), the external engine:
\* every body that is not static falls one unit per advance.
EngineUpdate(bodies) ==
    [id \in DOMAIN bodies |->
        IF bodies[id].isStatic THEN bodies[id]
        ELSE [bodies[id] EXCEPT !.y = NumAdd(@, I(1))]]

RECURSIVE AdvanceLate(_, _, _, _, _)
\* The same loop with > in its test
AdvanceLate(acc, bodies, fts, engine, n) ==
    IF acc > fts
    THEN IF fts < 0
         THEN [acc |-> acc, bodies |-> bodies, n |-> n, hung |-> TRUE]
         ELSE AdvanceLate(acc - fts, IF engine THEN EngineUpdate(bodies) ELSE bodies, fts,
                          engine, n + 1)
    ELSE [acc |-> acc, bodies |-> bodies, n |-> n, hung |-> FALSE]

RECURSIVE Advance(_, _, _, _, _)
\* while (accumulator >= fixedTimestep) { if (engine) update; accumulator -= fixedTimestep }
\* n counts the passes made.  With a negative fixedTimestep the test stays
\* true after every pass (the accumulator only grows): the loop never ends.
Advance(acc, bodies, fts, engine, n) ==
    IF acc >= fts
    THEN IF fts < 0
         THEN [acc |-> acc, bodies |-> bodies, n |-> n, hung |-> TRUE]
         ELSE Advance(acc - fts, IF engine THEN EngineUpdate(bodies) ELSE bodies, fts, engine,
                      n + 1)
    ELSE [acc |-> acc, bodies |-> bodies, n |-> n, hung |-> FALSE]

\* A frame whose accumulator loop never ends: the callback does not return,
\* nothing after the loop runs and no other callback of the page can run.
HangFrame ==
    /\ trace' = << Ev(0, "hang", 0, "advance") >>
    /\ scheduled' = FALSE
    /\ UNCHANGED << accumulator, matterBodies, entitiesRef, particlesRef, logs, drawn, elapsed, imageState >>

Hung == trace # << >> /\ trace[Len(trace)].what = "hang"

\* Matter.Bodies.circle / rectangle at the entity's pose (types.ts 753-795)
NewBody(e) ==
    [x |-> GetNum(e, PosX), y |-> GetNum(e, PosY), angle |-> GetNum(e, Rotation),
     isStatic |-> e.isStatic]

\* A body for every entity, with or without a physics component
CreateBodiesForAll(ents) == [id \in { ents[i].id : i \in 1 .. Len(ents) } |->
                               NewBody(ents[CHOOSE i \in 1 .. Len(ents) : ents[i].id = id])]

CreateBodies(ents) ==
    LET ids == { ents[i].id : i \in { k \in 1 .. Len(ents) : HasPhysics(ents[k]) } }
        of(id) == CHOOSE i \in 1 .. Len(ents) :
                     /\ ents[i].id = id /\ HasPhysics(ents[i])
                     /\ \A k \in 1 .. Len(ents) :
                           ents[k].id = id /\ HasPhysics(ents[k]) => k <= i
    IN  [id \in ids |-> NewBody(ents[of(id)])]

-----------------------------------------------------------------------------
(* draw() (types.ts 500-730; exportGame.ts 463-560) *)

\* The 2D context: the current transform maps p to s * p + (tx, ty); save()
\* pushes it and restore() pops the last one pushed.
CtxInit == [s |-> I(1), tx |-> I(0), ty |-> I(0), stack |-> << >>]

CtxSave(c) == [c EXCEPT !.stack = Append(@, [s |-> c.s, tx |-> c.tx, ty |-> c.ty])]

CtxRestore(c) ==
    IF c.stack = << >> THEN c
    ELSE LET top == c.stack[Len(c.stack)]
         IN  [s |-> top.s, tx |-> top.tx, ty |-> top.ty,
              stack |-> SubSeq(c.stack, 1, Len(c.stack) - 1)]

CtxTranslate(c, x, y) ==
    [c EXCEPT !.tx = NumAdd(@, NumMul(c.s, x)), !.ty = NumAdd(@, NumMul(c.s, y))]

CtxScale(c, z) == [c EXCEPT !.s = NumMul(@, z)]

\* scene.camera?.zoom || 1: an absent, zero or NaN zoom counts as 1
Zoom(sc) == IF sc.zoom.n = 0 THEN I(1) ELSE sc.zoom

Anchors == { "top-left", "top-center", "top-right", "center-left", "center",
             "center-right", "bottom-left", "bottom-center", "bottom-right" }

Half(w) == Q(w, 2)

\* The switch on entity.transform.anchor: what is added to (x, y).
AnchorOffset(anchor, w, h) ==
    CASE anchor = "top-left" -> << I(0), I(0) >>
      [] anchor = "top-center" -> << Half(w), I(0) >>
      [] anchor = "top-right" -> << I(w), I(0) >>
      [] anchor = "center-left" -> << I(0), Half(h) >>
      [] anchor = "center" -> << Half(w), Half(h) >>
      [] anchor = "center-right" -> << I(w), Half(h) >>
      [] anchor = "bottom-left" -> << I(0), I(h) >>
      [] anchor = "bottom-center" -> << Half(w), I(h) >>
      [] anchor = "bottom-right" -> << I(w), I(h) >>
      [] OTHER -> << I(0), I(0) >>

\* drawEntity, UI branch: ctx.restore(); ctx.save(); anchor; ctx.translate(x, y)
PlaceAt(c, e, off) ==
    CtxTranslate(c, NumAdd(GetNum(e, PosX), off[1]), NumAdd(GetNum(e, PosY), off[2]))

PlaceUI(c, e, cv) == PlaceAt(CtxSave(CtxRestore(c)), e, AnchorOffset(e.anchor, cv.w, cv.h))

\* drawEntity, world branch: translate by position - camera * parallax
PlaceWorld(c, e, cam) ==
    CtxTranslate(c, NumSub(GetNum(e, PosX), NumMul(cam.x, I(e.parallax))),
                    NumSub(GetNum(e, PosY), NumMul(cam.y, I(e.parallax))))

\* What drawEntity leaves: c1 is the context with the entity placed
Placed(c1, e, isUI, pools) ==
    [ctx |-> CtxRestore(c1),
     at |-> [id |-> e.id, ui |-> isUI, x |-> c1.tx, y |-> c1.ty,
             particles |-> IF ~isUI /\ HasEmitter(e) /\ e.id \in DOMAIN pools
                           THEN Len(pools[e.id]) ELSE 0]]

\* drawEntity(entity, isUI): ctx.save(); place; ...; ctx.restore().  Returns
\* the context afterwards and the canvas pixel of the entity's origin.
DrawEntity(c, e, isUI, cv, cam, pools) ==
    Placed(IF isUI THEN PlaceUI(CtxSave(c), e, cv) ELSE PlaceWorld(CtxSave(c), e, cam),
           e, isUI, pools)

RECURSIVE DrawAll(_, _, _, _, _, _, _)
RECURSIVE DrawNext(_, _, _, _, _, _, _)
DrawAll(c, list, isUI, cv, cam, pools, out) ==
    IF list = << >> THEN [ctx |-> c, out |-> out]
    ELSE DrawNext(DrawEntity(c, Head(list), isUI, cv, cam, pools), Tail(list), isUI, cv,
                  cam, pools, out)

DrawNext(r, rest, isUI, cv, cam, pools, out) ==
    DrawAll(r.ctx, rest, isUI, cv, cam, pools, Append(out, r.at))

IsUIEntity(e) == e.isUI

IsWorldEntity(e) == ~e.isUI

\* The UI pass: entities.filter(e => e.isUI).forEach(e => drawEntity(e, true))
DrawUI(a, ents, cv, cam, pools) ==
    DrawAll(a.ctx, SelectSeq(ents, IsUIEntity), TRUE, cv, cam, pools, a.out).out

\* draw(): camera transform, then the non-UI entities, then the UI entities
Draw(ents, sc, cv, cam, pools) ==
    DrawUI(DrawAll(CtxScale(CtxTranslate(CtxSave(CtxInit), Half(cv.w), Half(cv.h)), Zoom(sc)),
                   SelectSeq(ents, IsWorldEntity), FALSE, cv, cam, pools, << >>),
           ents, cv, cam, pools)

-----------------------------------------------------------------------------
(* The image cache of draw(): sprites (types.ts 593-626; exportGame.ts      *)
(* 541-560) and tilesets (650-674; 567-589).  An Image is "loading" from    *)
(* `img.src = url` until the browser fires load ("complete") or error       *)
(* ("broken"); img.complete is true in both of the latter, and drawImage    *)
(* with a broken image throws InvalidStateError.                            *)

Urls == { "hero.png", "tiles.png" }

NoImages == [u \in Urls |-> "absent"]

NoLoads == [u \in Urls |-> 0]

\* cache[url] = new Image(); cache[url].src = url
StartLoad(st, url) ==
    [st EXCEPT !.cache[url] = "loading", !.loads[url] = @ + 1]

\* ctx.drawImage(img, ...) for entity e
DrawImage(st, e, url, what) ==
    IF st.cache[url] = "broken" THEN [st EXCEPT !.threw = TRUE]
    ELSE [st EXCEPT !.painted = Append(@, [id |-> e.id, what |-> what, url |-> url])]

\* A sprite branch that starts a load whenever the image is not complete
SpriteOfReloads(st, e) ==
    IF e.spriteUrl = "" THEN st
    ELSE IF st.cache[e.spriteUrl] \in { "absent", "loading" } THEN StartLoad(st, e.spriteUrl)
    ELSE DrawImage(st, e, e.spriteUrl, "sprite")

\* if (cache[url]) { if (cache[url].complete) drawImage } else start the load
SpriteOf(st, e) ==
    IF e.spriteUrl = "" THEN st
    ELSE IF st.cache[e.spriteUrl] = "absent" THEN StartLoad(st, e.spriteUrl)
    ELSE IF st.cache[e.spriteUrl] = "loading" THEN st
    ELSE DrawImage(st, e, e.spriteUrl, "sprite")

\* if (cache[url] && cache[url].complete) draw the tiles, each with
\* drawImage; else if (!cache[url]) start the load
TilesOf(st, e) ==
    IF e.tilesetUrl = "" \/ st.threw THEN st
    ELSE IF st.cache[e.tilesetUrl] = "absent" THEN StartLoad(st, e.tilesetUrl)
    ELSE IF st.cache[e.tilesetUrl] = "loading" THEN st
    ELSE DrawImage(st, e, e.tilesetUrl, "tiles")

\* The image part of drawEntity: the sprite, then the tiles; `done` counts
\* the entities whose drawEntity returned
EntityDrawn(st) == IF st.threw THEN st ELSE [st EXCEPT !.done = @ + 1]

PaintEntity(st, e) == EntityDrawn(TilesOf(SpriteOf(st, e), e))

\* The entities in the order draw() takes them: non-UI, then UI
DrawOrder(ents) == SelectSeq(ents, IsWorldEntity) \o SelectSeq(ents, IsUIEntity)

\* The forEach over the entities; an exception of drawImage ends draw()
RECURSIVE PaintImages(_, _)
PaintImages(list, st) ==
    IF list = << >> \/ st.threw THEN st
    ELSE CHOOSE r \in { PaintImages(Tail(list), a) : a \in { PaintEntity(st, Head(list)) } } :
             TRUE

\* What draw() over ents does to a cache
PaintingFrom(ents, cache, loads) ==
    PaintImages(DrawOrder(ents), [cache |-> cache, loads |-> loads, painted |-> << >>,
                                  threw |-> FALSE, done |-> 0])

\* What draw() over ents does to the cache as it stands
Painting(ents) == PaintingFrom(ents, imageCache, imageLoads)

\* No draw() ran
NotPainted ==
    [cache |-> imageCache, loads |-> imageLoads, painted |-> painted, threw |-> FALSE,
     done |-> 0]

Paint(r) ==
    /\ imageCache' = r.cache
    /\ imageLoads' = r.loads
    /\ painted' = r.painted

\* The placements of a draw() that drawImage may have ended early
DrawnUpTo(r, all) == IF r.threw THEN SubSeq(all, 1, r.done) ELSE all

\* The browser ends the load of url: the load event, or the error event
ImageLoaded(url) ==
    /\ imageCache[url] = "loading"
    /\ imageCache' = [imageCache EXCEPT ![url] = "complete"]
    /\ UNCHANGED << scene, assets, nextId, isPlaying, entitiesRef, particlesRef, matterBodies,
                    matterEngine, accumulator, scheduled, loopScene, logs, trace, frames,
                    elapsed, host, canvas, cameraOffset, drawn, pointerState, gameView,
                    imageLoads, painted,
                    input, libState >>

ImageFailed(url) ==
    /\ imageCache[url] = "loading"
    /\ imageCache' = [imageCache EXCEPT ![url] = "broken"]
    /\ UNCHANGED << scene, assets, nextId, isPlaying, entitiesRef, particlesRef, matterBodies,
                    matterEngine, accumulator, scheduled, loopScene, logs, trace, frames,
                    elapsed, host, canvas, cameraOffset, drawn, pointerState, gameView,
                    imageLoads, painted,
                    input, libState >>

-----------------------------------------------------------------------------
(* JSON.parse(JSON.stringify(x)): the deep copy used for the working copy   *)
(* and for prefabs.  A non-finite number is written as null; a null cursor  *)
(* then counts as 0 in `currentTime += dt`.                                 *)

JsonValue(v) == IF v.k = "num" /\ v.d = 0 THEN Null ELSE v

JsonClone(e) ==
    [e EXCEPT !.fields = [q \in DOMAIN e.fields |-> JsonValue(e.fields[q])],
              !.anims = [j \in DOMAIN e.anims |->
                           [e.anims[j] EXCEPT !.currentTime =
                               IF ~IsFinite(@) THEN I(0) ELSE @]]]

JsonCloneAll(ents) == [i \in DOMAIN ents |-> JsonClone(ents[i])]

EmptyMap == [id \in {} |-> 0]

-----------------------------------------------------------------------------
(* The random draws of one update(): for each entity, the draw of the       *)
(* emission test and one (angle, speed, life) triple per particle pushed.   *)

NoDraws == [emit |-> 0, spawn |-> << >>]

DrawsFor(e, pool, dt, U) ==
    IF HasEmitter(e)
    THEN UNION { { [emit |-> u, spawn |-> sp] :
                     sp \in [1 .. SpawnNeed(Len(AgePool(pool, Len(pool), dt)), e.particles,
                                            EmitCount(e.particles, dt, u))
                             -> [angle : U.angle, speed : U.speed, life : U.life]] } :
                 u \in U.emit }
    ELSE { NoDraws }

RndChoices(ents, pools, dt, U) ==
    LET S(i) == DrawsFor(ents[i], PoolOf(pools, ents[i].id), dt, U)
    IN  { f \in [1 .. Len(ents) -> UNION { S(i) : i \in 1 .. Len(ents) }] :
            \A i \in 1 .. Len(ents) : f[i] \in S(i) }

-----------------------------------------------------------------------------
(* InputManager (utils/InputManager.ts), the instance App creates and       *)
(* enables while playing (App.tsx 35-46)                                    *)

\* `new InputManager()`: empty sets, isEnabled false
NoInput ==
    [keysDown |-> {}, keysPressed |-> {}, mouseButtonsDown |-> {},
     mouseButtonsPressed |-> {}, isEnabled |-> FALSE, mousePosition |-> [x |-> 0, y |-> 0]]

\* A setEnabled that sets the flag and clears nothing
setEnabledKeepsSets(in, enabled) == [in EXCEPT !.isEnabled = enabled]

\* setEnabled(enabled): disabling clears the four sets
setEnabled(in, enabled) ==
    IF enabled THEN [in EXCEPT !.isEnabled = TRUE]
    ELSE [in EXCEPT !.isEnabled = FALSE, !.keysDown = {}, !.keysPressed = {},
                    !.mouseButtonsDown = {}, !.mouseButtonsPressed = {}]

\* update(): clear the 'pressed' states at the end of the frame
update(in) == [in EXCEPT !.keysPressed = {}, !.mouseButtonsPressed = {}]

isKeyDown(in, key) == in.isEnabled /\ key \in in.keysDown

isKeyPressed(in, key) == in.isEnabled /\ key \in in.keysPressed

isMouseButtonDown(in, button) == in.isEnabled /\ button \in in.mouseButtonsDown

isMouseButtonPressed(in, button) == in.isEnabled /\ button \in in.mouseButtonsPressed

\* What no handler of the InputManager changes
InputOnly ==
    UNCHANGED << scene, assets, nextId, isPlaying, entitiesRef, particlesRef, matterBodies,
                 matterEngine, accumulator, scheduled, loopScene, logs, trace, frames,
                 elapsed, host, canvas, cameraOffset, drawn, pointerState, gameView,
                 imageState, libState >>

\* The window listeners exist in the editor page, from App's mount on
handleKeyDown(code) ==
    /\ host = "editor"
    /\ input' = IF ~input.isEnabled THEN input
                ELSE [input EXCEPT !.keysPressed = IF code \in input.keysDown THEN @
                                                   ELSE @ \cup { code },
                                   !.keysDown = @ \cup { code }]
    /\ InputOnly

handleKeyUp(code) ==
    /\ host = "editor"
    /\ input' = IF ~input.isEnabled THEN input
                ELSE [input EXCEPT !.keysDown = @ \ { code }]
    /\ InputOnly

handleMouseMove(x, y) ==
    /\ host = "editor"
    /\ input' = IF ~input.isEnabled THEN input
                ELSE [input EXCEPT !.mousePosition = [x |-> x, y |-> y]]
    /\ InputOnly

handleMouseDown(button) ==
    /\ host = "editor"
    /\ input' = IF ~input.isEnabled THEN input
                ELSE [input EXCEPT !.mouseButtonsPressed =
                                       IF button \in input.mouseButtonsDown THEN @
                                       ELSE @ \cup { button },
                                   !.mouseButtonsDown = @ \cup { button }]
    /\ InputOnly

handleMouseUp(button) ==
    /\ host = "editor"
    /\ input' = IF ~input.isEnabled THEN input
                ELSE [input EXCEPT !.mouseButtonsDown = @ \ { button }]
    /\ InputOnly

-----------------------------------------------------------------------------
(* ObjectPool (unnamed/part_000 1-31; exportGame.ts 110-133), the class      *)
(* handed to every script                                                    *)

\* Objects are numbered in the order the factory made them.  Besides the
\* class's one field, pool, the record keeps what the calls so far did:
\* next, the factory's next object; resets, how often reset ran on each
\* object; holders, how many get() results of each object were not
\* released since; last, the last call and its result; releases and served,
\* the release calls and the get calls served from the pool since the last
\* clear or, with none, since construction; calls, all calls.
NoPool ==
    [built |-> FALSE, pool |-> << >>, initialSize |-> 0, next |-> 1, resets |-> << >>,
     holders |-> << >>, last |-> [op |-> "none", obj |-> 0, reset |-> FALSE],
     releases |-> 0, served |-> 0, cleared |-> FALSE, calls |-> 0]

\* new ObjectPool(factory, reset, initialSize): initialSize factory objects
ObjectPoolNew(initialSize) ==
    [NoPool EXCEPT !.built = TRUE, !.pool = [i \in 1 .. initialSize |-> i],
                   !.initialSize = initialSize, !.next = initialSize + 1,
                   !.resets = [i \in 1 .. initialSize |-> 0],
                   !.holders = [i \in 1 .. initialSize |-> 0],
                   !.last = [op |-> "new", obj |-> 0, reset |-> FALSE]]

\* get() that takes the oldest object of the pool: shift() in place of pop()
getOldest(o) ==
    IF Len(o.pool) > 0
    THEN [o EXCEPT !.pool = Tail(o.pool),
                   !.resets[Head(o.pool)] = @ + 1,
                   !.holders[Head(o.pool)] = @ + 1,
                   !.last = [op |-> "get", obj |-> Head(o.pool), reset |-> TRUE],
                   !.served = @ + 1, !.calls = @ + 1]
    ELSE [o EXCEPT !.next = @ + 1,
                   !.resets = Append(@, 0), !.holders = Append(@, 1),
                   !.last = [op |-> "get", obj |-> o.next, reset |-> FALSE],
                   !.calls = @ + 1]

\* get(): pop and reset when the pool is not empty, else a factory object
get(o) ==
    IF Len(o.pool) > 0
    THEN [o EXCEPT !.pool = SubSeq(@, 1, Len(@) - 1),
                   !.resets[o.pool[Len(o.pool)]] = @ + 1,
                   !.holders[o.pool[Len(o.pool)]] = @ + 1,
                   !.last = [op |-> "get", obj |-> o.pool[Len(o.pool)], reset |-> TRUE],
                   !.served = @ + 1, !.calls = @ + 1]
    ELSE [o EXCEPT !.next = @ + 1,
                   !.resets = Append(@, 0), !.holders = Append(@, 1),
                   !.last = [op |-> "get", obj |-> o.next, reset |-> FALSE],
                   !.calls = @ + 1]

\* release(obj): this.pool.push(obj)
release(o, obj) ==
    [o EXCEPT !.pool = Append(@, obj),
              !.holders[obj] = IF @ > 0 THEN @ - 1 ELSE 0,
              !.last = [op |-> "release", obj |-> obj, reset |-> FALSE],
              !.releases = @ + 1, !.calls = @ + 1]

\* clear(): this.pool = []
clear(o) ==
    [o EXCEPT !.pool = << >>, !.last = [op |-> "clear", obj |-> 0, reset |-> FALSE],
              !.releases = 0, !.served = 0, !.cleared = TRUE, !.calls = @ + 1]

\* What no call on the pool changes
PoolOnly ==
    UNCHANGED << scene, assets, nextId, isPlaying, entitiesRef, particlesRef, matterBodies,
                 matterEngine, accumulator, scheduled, loopScene, logs, trace, frames,
                 elapsed, host, canvas, cameraOffset, drawn, pointerState, gameView,
                 imageState, input, sound >>

-----------------------------------------------------------------------------
(* SoundManager (App.tsx 455-585; exportGame.ts 136-216), one instance *)

\* audioContext: the context exists (and with it bgmGain and sfxGain);
\* listening: the unlock listeners are on the document; loading: the
\* loadSound calls still awaiting fetch and decode; sources: every buffer
\* source started so far, playing or not; bgmSource: the index of
\* this.bgmSource in sources, 0 for null; last: the last call.
NoSound ==
    [audioContext |-> FALSE, listening |-> FALSE, isUnlocked |-> FALSE, buffers |-> {},
     loading |-> {}, bgmSource |-> 0, sources |-> << >>, last |-> "none"]

Source(kind, id, loop) == [kind |-> kind, id |-> id, loop |-> loop, playing |-> TRUE]

\* init(): create the context and the gains once, register the unlock
\* listeners unless already unlocked
init(s) ==
    IF s.audioContext THEN s
    ELSE [s EXCEPT !.audioContext = TRUE, !.listening = ~s.isUnlocked]

\* The `unlock` listener on touchstart, touchend or click: play a silent
\* buffer, set isUnlocked, remove the listeners
unlock(s) ==
    [s EXCEPT !.sources = Append(@, [Source("silent", "", FALSE) EXCEPT !.playing = FALSE]),
              !.isUnlocked = TRUE, !.listening = FALSE, !.last = "unlock"]

\* loadSound(url, id) up to its first await
loadSound(s, id) ==
    [init(s) EXCEPT !.loading = IF init(s).audioContext THEN @ \cup { id } ELSE @,
                    !.last = "loadSound"]

\* stopBGM() that forgets the source without stopping it
stopBGMForgets(s) == [s EXCEPT !.bgmSource = 0, !.last = "stopBGM"]

\* stopBGM(): stop the source, errors ignored, and set bgmSource to null
stopBGM(s) ==
    IF s.bgmSource # 0
    THEN [s EXCEPT !.sources[s.bgmSource].playing = FALSE, !.bgmSource = 0,
                   !.last = "stopBGM"]
    ELSE [s EXCEPT !.last = "stopBGM"]

\* playSFX(id): a new source on the SFX gain
playSFX(s, id) ==
    IF ~s.audioContext \/ ~s.isUnlocked \/ id \notin s.buffers
    THEN [s EXCEPT !.last = "playSFX"]
    ELSE [s EXCEPT !.sources = Append(@, Source("sfx", id, FALSE)), !.last = "playSFX"]

\* playBGM(id, volume, loop): stopBGM(), then a new source kept in bgmSource
playBGM(s, id, loop) ==
    IF ~s.audioContext \/ ~s.isUnlocked \/ id \notin s.buffers
    THEN [s EXCEPT !.last = "playBGM"]
    ELSE [stopBGM(s) EXCEPT !.sources = Append(@, Source("bgm", id, loop)),
                            !.bgmSource = Len(s.sources) + 1, !.last = "playBGM"]

\* What no call on the SoundManager changes
SoundOnly ==
    UNCHANGED << scene, assets, nextId, isPlaying, entitiesRef, particlesRef, matterBodies,
                 matterEngine, accumulator, scheduled, loopScene, trace, frames,
                 elapsed, host, canvas, cameraOffset, drawn, pointerState, gameView,
                 imageState, input, objectPool >>

-----------------------------------------------------------------------------
(* The editor canvas: GameCanvas (types.ts 310-811) *)

\* A stop that left the working copy as the simulation wrote it
KeepWorking(working, sc) == working

\* What Stop leaves in entitiesRef: the sync effect (types.ts 347-352) runs
\* with isPlaying false and replaces the working copy by a copy of the scene.
StopEntities(working, sc) == JsonCloneAll(sc.entities)

\* The end of one frame of the editor loop: adv is what the accumulator loop
\* left and st what the pass over the entities left.  draw() and the next
\* requestAnimationFrame are reached only when update() returned.
EditorFrame(dt, adv, st) ==
    /\ accumulator' = adv.acc
    /\ matterBodies' = adv.bodies
    /\ entitiesRef' = st.ents
    /\ particlesRef' = st.pools
    /\ logs' = st.logs
    /\ \E r \in { IF st.threw THEN NotPainted ELSE Painting(st.ents) } :
          /\ Paint(r)
          /\ trace' = IF st.threw THEN st.trace
                      ELSE Append(st.trace,
                                  Ev(0, "draw", 0, IF r.threw THEN "threw" ELSE "done"))
          /\ drawn' = IF st.threw THEN drawn
                      ELSE DrawnUpTo(r, Draw(st.ents, loopScene, canvas, cameraOffset,
                                             st.pools))
          /\ scheduled' = (~st.threw /\ ~r.threw)
    /\ elapsed' = elapsed + dt

\* update(dt) (types.ts 367-498) after the accumulator loop
EditorUpdate(dt, adv, rnd) ==
    IF adv.hung THEN HangFrame
    ELSE EditorFrame(dt, adv,
                     UpdateEntities([ents |-> entitiesRef, pools |-> particlesRef,
                                     logs |-> logs,
                                     trace |-> << Ev(0, "advance", adv.n, "done") >>,
                                     threw |-> FALSE],
                                    1, dt, rnd, adv.bodies, TRUE))

\* loop(time) (types.ts 732-742): update(Math.min(dt, 0.1)); draw(); and, the
\* closure's isPlaying being true, requestAnimationFrame(loop).  An exception
\* in update() leaves the callback before draw() and before the request.
EditorTick(rawDt, rnd) ==
    /\ host = "editor"
    /\ scheduled
    /\ EditorUpdate(Min(rawDt, DtCap),
                    Advance(accumulator + Min(rawDt, DtCap), matterBodies,
                            FixedTimestep(loopScene), matterEngine, 0),
                    rnd)
    /\ frames' = frames + 1
    /\ UNCHANGED << scene, assets, nextId, isPlaying, matterEngine, loopScene, host,
                    canvas, cameraOffset, pointerState, gameView,
                    input, libState >>

\* What a frame of the Game view canvas leaves in its refs
GameViewFrame(gv, adv, st, r) ==
    [gv EXCEPT !.accumulator = adv.acc, !.matterBodies = adv.bodies, !.entitiesRef = st.ents,
               !.particlesRef = st.pools,
               !.trace = IF st.threw THEN st.trace
                         ELSE Append(st.trace,
                                     Ev(0, "draw", 0, IF r.threw THEN "threw" ELSE "done")),
               !.drawn = IF st.threw THEN gv.drawn
                         ELSE DrawnUpTo(r, Draw(st.ents, loopScene, canvas,
                                                [x |-> Half(canvas.w), y |-> Half(canvas.h)],
                                                st.pools)),
               !.scheduled = (~st.threw /\ ~r.threw), !.frames = gv.frames + 1]

\* What update(dt) of the Game view canvas leaves: st is its entity pass
GameViewPass(gv, adv, st) ==
    /\ \E r \in { IF st.threw THEN NotPainted ELSE Painting(st.ents) } :
          /\ Paint(r)
          /\ gameView' = GameViewFrame(gv, adv, st, r)
    /\ logs' = st.logs

\* update(dt) in the Game view canvas: its own accumulator, bodies, working
\* copy and pools; console.error is the page's
GameViewUpdate(gv, dt, adv, rnd) ==
    IF adv.hung
    THEN /\ gameView' = [gv EXCEPT !.trace = << Ev(0, "hang", 0, "advance") >>,
                                    !.scheduled = FALSE]
         /\ logs' = logs
         /\ UNCHANGED imageState
    ELSE GameViewPass(gv, adv,
                      UpdateEntities([ents |-> gv.entitiesRef, pools |-> gv.particlesRef,
                                      logs |-> logs,
                                      trace |-> << Ev(0, "advance", adv.n, "done") >>,
                                      threw |-> FALSE],
                                     1, dt, rnd, adv.bodies, TRUE))

\* loop(time) of the Game view canvas, the second GameCanvas of the page: the
\* same component, so the same update and draw, on its own refs
GameViewTick(rawDt, rnd) ==
    /\ host = "editor"
    /\ gameView.mounted /\ gameView.scheduled
    /\ ~Hung
    /\ GameViewUpdate(gameView, Min(rawDt, DtCap),
                      Advance(gameView.accumulator + Min(rawDt, DtCap), gameView.matterBodies,
                              FixedTimestep(loopScene), TRUE, 0),
                      rnd)
    /\ UNCHANGED << scene, assets, nextId, isPlaying, entitiesRef, particlesRef, matterBodies,
                    matterEngine, accumulator, scheduled, loopScene, trace, frames, elapsed,
                    host, canvas, cameraOffset, drawn, pointerState,
                    input, libState >>

\* App renders the Game view canvas only while playing (App.tsx 388-413, with
\* the single layout App starts in): none is mounted otherwise.
NoGameView ==
    [mounted |-> FALSE, entitiesRef |-> << >>, particlesRef |-> EmptyMap,
     matterBodies |-> EmptyMap, accumulator |-> 0, scheduled |-> FALSE, trace |-> << >>,
     frames |-> 0, drawn |-> << >>]

\* The Game view canvas as it mounts with isPlaying true: its own working
\* copy of the scene (types.ts 323), its own engine and bodies and its own
\* requested frame (744-797)
MountGameView(sc) ==
    [mounted |-> TRUE, entitiesRef |-> JsonCloneAll(sc.entities), particlesRef |-> EmptyMap,
     matterBodies |-> CreateBodies(JsonCloneAll(sc.entities)), accumulator |-> 0,
     scheduled |-> TRUE, trace |-> << >>, frames |-> 0, drawn |-> << >>]

RECURSIVE FindId(_, _, _)
\* entitiesRef.current.findIndex(e => e.id === id) + 1, 0 when there is none
FindId(ents, i, id) ==
    IF i > Len(ents) THEN 0
    ELSE IF ents[i].id = id THEN i
    ELSE FindId(ents, i + 1, id)

\* The focus effect (types.ts 355-363) after selectedEntityId or isPlaying
\* changed: when not playing and the selected entity is in the working copy,
\* cameraOffset.current = { ...entity.transform.position }
FocusOn(ents, id, playing, cam) ==
    IF id # 0 /\ ~playing /\ FindId(ents, 1, id) # 0
    THEN [x |-> GetNum(ents[FindId(ents, 1, id)], PosX),
          y |-> GetNum(ents[FindId(ents, 1, id)], PosY)]
    ELSE cam

\* setIsPlaying(true) and the play effect (types.ts 744-797)
Play ==
    /\ host = "editor"
    /\ ~isPlaying
    /\ isPlaying' = TRUE
    /\ matterEngine' = TRUE
    /\ matterBodies' = CreateBodies(entitiesRef)
    /\ scheduled' = TRUE
    /\ loopScene' = scene
    /\ elapsed' = 0
    /\ trace' = << >>
    /\ gameView' = MountGameView(scene)
    /\ input' = setEnabled(input, TRUE)
    /\ UNCHANGED << scene, assets, nextId, entitiesRef, particlesRef, accumulator, logs,
                    frames, host, canvas, cameraOffset, drawn, pointerState, imageState, libState >>

\* A stop that leaves the requested frame pending
keepAnimationFrame(pending) == pending

\* cancelAnimationFrame(requestRef.current): the pending callback is dropped
cancelAnimationFrame(pending) == FALSE

\* setIsPlaying(false): the effect cleanup cancels the pending frame, the
\* sync effect (347-352) re-reads the scene and draws, and the play effect's
\* else branch (798-809) clears the engine and draws.
Stop ==
    /\ host = "editor"
    /\ isPlaying
    /\ isPlaying' = FALSE
    /\ scheduled' = cancelAnimationFrame(scheduled)
    /\ entitiesRef' = StopEntities(entitiesRef, scene)
    /\ matterEngine' = FALSE
    /\ matterBodies' = EmptyMap
    /\ cameraOffset' = FocusOn(StopEntities(entitiesRef, scene), selectedEntityId, FALSE,
                                cameraOffset)
    /\ \E r \in { Painting(StopEntities(entitiesRef, scene)) } :
          /\ Paint(r)
          /\ drawn' = DrawnUpTo(r, Draw(entitiesRef', scene, canvas, cameraOffset',
                                        particlesRef))
    /\ trace' = << >>
    /\ gameView' = NoGameView
    /\ input' = setEnabled(input, FALSE)
    /\ UNCHANGED << scene, assets, nextId, particlesRef, accumulator, loopScene, logs,
                    frames, elapsed, host, canvas, pointerState, libState >>

\* A sync effect that copies the scene whether or not the loop is playing
SyncEffectAlways(working, sc, playing) == JsonCloneAll(sc.entities)

\* The sync effect (types.ts 347-352): `if (!isPlaying)` the working copy
\* becomes a deep copy of the scene's entities
SyncEffect(working, sc, playing) ==
    IF playing THEN working ELSE JsonCloneAll(sc.entities)

\* handleUpdateEntity (App.tsx 197-204) followed by the sync effect of the
\* canvas (types.ts 347-352), which copies and draws only when not playing.
CommitScene(sc) ==
    /\ scene' = sc
    /\ entitiesRef' = SyncEffect(entitiesRef, sc, isPlaying)
    /\ \E r \in { IF isPlaying THEN NotPainted
                   ELSE Painting(SyncEffect(entitiesRef, sc, isPlaying)) } :
          /\ Paint(r)
          /\ drawn' = IF isPlaying THEN drawn
                      ELSE DrawnUpTo(r, Draw(entitiesRef', sc, canvas, cameraOffset,
                                             particlesRef))

\* Inspector: handleChange('particles', 'maxParticles', v) (part_001 442)
SetMaxParticles(i, v) ==
    /\ host = "editor"
    /\ i \in 1 .. Len(scene.entities)
    /\ HasEmitter(scene.entities[i])
    /\ scene.entities[i].particles.maxParticles # v
    /\ CommitScene([scene EXCEPT !.entities[i].particles.maxParticles = v])
    /\ UNCHANGED << assets, nextId, isPlaying, particlesRef, matterBodies, matterEngine,
                    accumulator, scheduled, loopScene, logs, trace, frames, elapsed, host,
                    canvas, cameraOffset, pointerState, gameView,
                    input, libState >>

\* Inspector: handleChange('particles', 'emitting', checked) (part_001 436-437)
SetEmitting(i, v) ==
    /\ host = "editor"
    /\ i \in 1 .. Len(scene.entities)
    /\ HasEmitter(scene.entities[i])
    /\ scene.entities[i].particles.emitting # v
    /\ CommitScene([scene EXCEPT !.entities[i].particles.emitting = v])
    /\ UNCHANGED << assets, nextId, isPlaying, particlesRef, matterBodies, matterEngine,
                    accumulator, scheduled, loopScene, logs, trace, frames, elapsed, host,
                    canvas, cameraOffset, pointerState, gameView,
                    input, libState >>

\* Inspector: handleChange('transform', 'anchor', v) (part_001 162)
SetAnchor(i, a) ==
    /\ host = "editor"
    /\ i \in 1 .. Len(scene.entities)
    /\ scene.entities[i].isUI
    /\ scene.entities[i].anchor # a
    /\ CommitScene([scene EXCEPT !.entities[i].anchor = a])
    /\ UNCHANGED << assets, nextId, isPlaying, particlesRef, matterBodies, matterEngine,
                    accumulator, scheduled, loopScene, logs, trace, frames, elapsed, host,
                    canvas, cameraOffset, pointerState, gameView,
                    input, libState >>

\* Inspector: Pos X / Pos Y (part_001 180-204): the position object is
\* replaced by a copy with one coordinate changed
SetPosition(i, axis, v) ==
    /\ host = "editor"
    /\ i \in 1 .. Len(scene.entities)
    /\ scene.entities[i].fields[<< "transform", "position", axis >>] # Num(I(v))
    /\ CommitScene([scene EXCEPT !.entities[i].fields =
                       SetField(@, << "transform", "position" >>, axis, Num(I(v)))])
    /\ UNCHANGED << assets, nextId, isPlaying, particlesRef, matterBodies, matterEngine,
                    accumulator, scheduled, loopScene, logs, trace, frames, elapsed, host,
                    canvas, cameraOffset, pointerState, gameView,
                    input, libState >>

NumMax(a, b) == IF IsNaN(a) \/ IsNaN(b) THEN NaN ELSE IF NumLt(a, b) THEN b ELSE a

\* Inspector: handleCameraChange('zoom', Math.max(0.1, v)) (part_001 25-33, 63)
SetZoom(v) ==
    /\ host = "editor"
    /\ scene.zoom # NumMax(Q(1, 10), v)
    /\ CommitScene([scene EXCEPT !.zoom = NumMax(Q(1, 10), v)])
    /\ UNCHANGED << assets, nextId, isPlaying, particlesRef, matterBodies, matterEngine,
                    accumulator, scheduled, loopScene, logs, trace, frames, elapsed, host,
                    canvas, cameraOffset, pointerState, gameView,
                    input, libState >>

\* handlePointerMove while panning (types.ts 982-1000), the canvas shown at
\* its own size: the camera moves by the pointer's travel over the zoom
PanCamera(dx, dy) ==
    /\ host = "editor"
    /\ ~isPlaying
    /\ cameraOffset' = [x |-> NumSub(cameraOffset.x, NumDiv(I(dx), Zoom(scene))),
                        y |-> NumSub(cameraOffset.y, NumDiv(I(dy), Zoom(scene)))]
    /\ \E r \in { Painting(entitiesRef) } :
          /\ Paint(r)
          /\ drawn' = DrawnUpTo(r, Draw(entitiesRef, scene, canvas, cameraOffset',
                                        particlesRef))
    /\ UNCHANGED << scene, assets, nextId, isPlaying, entitiesRef, particlesRef, matterBodies,
                    matterEngine, accumulator, scheduled, loopScene, logs, trace, frames,
                    elapsed, host, canvas, pointerState, gameView,
                    input, libState >>

-----------------------------------------------------------------------------
(* The editor canvas: pointer and wheel handlers (types.ts 813-1068).  A     *)
(* pointer position is the canvas pixel (rawX, rawY); the canvas is shown at *)
(* its own size, so client deltas are canvas pixel deltas.                   *)

ScaleX == << "transform", "scale", "x" >>

ScaleY == << "transform", "scale", "y" >>

\* getCanvasCoordinates: screenX = (rawX - canvas.width / 2) / zoom
ScreenOf(px, py, sc, cv) ==
    [x |-> NumDiv(NumSub(I(px), Half(cv.w)), Zoom(sc)),
     y |-> NumDiv(NumSub(I(py), Half(cv.h)), Zoom(sc))]

\* ex, ey: entity.transform.position - cameraOffset * parallax
OnScreen(e, cam) ==
    [x |-> NumSub(GetNum(e, PosX), NumMul(cam.x, I(e.parallax))),
     y |-> NumSub(GetNum(e, PosY), NumMul(cam.y, I(e.parallax)))]

\* entity.transform.rotation, a whole number of degrees
Turn(e) == GetNum(e, Rotation).n

\* A local point that ignores the rotation
Unturned(dx, dy, r) == [x |-> dx, y |-> dy]

\* (dx, dy) turned by angle = -rotation
Turned(dx, dy, r) ==
    [x |-> NumAdd(NumMul(dx, I(CosDeg(r))), NumMul(dy, I(SinDeg(r)))),
     y |-> NumSub(NumMul(dy, I(CosDeg(r))), NumMul(dx, I(SinDeg(r))))]

\* localX, localY of the screen point s for entity e
ToLocal(s, o, r) == Turned(NumSub(s.x, o.x), NumSub(s.y, o.y), r)

\* w = renderer.width * scale.x, h = renderer.height * scale.y
WidthOf(e) == NumMul(GetNum(e, << "renderer", "width" >>), GetNum(e, ScaleX))

HeightOf(e) == NumMul(GetNum(e, << "renderer", "height" >>), GetNum(e, ScaleY))

NumAbs(a) == IF NumLt(a, I(0)) THEN NumSub(I(0), a) ELSE a

NumNeg(a) == NumSub(I(0), a)

\* isHit(hx, hy): Math.abs(localX - hx) < hs && Math.abs(localY - hy) < hs
IsHit(l, hx, hy, hs) == NumLt(NumAbs(NumSub(l.x, hx)), hs) /\ NumLt(NumAbs(NumSub(l.y, hy)), hs)

\* The handle under the local point l, "" for null
HandleAt(l, hw, hh, hs) ==
    IF IsHit(l, NumNeg(hw), NumNeg(hh), hs) THEN "tl"
    ELSE IF IsHit(l, hw, NumNeg(hh), hs) THEN "tr"
    ELSE IF IsHit(l, NumNeg(hw), hh, hs) THEN "bl"
    ELSE IF IsHit(l, hw, hh, hs) THEN "br"
    ELSE ""

\* The resize handle of entity e under the screen point s; the scenes hold
\* box renderers only (a circle has no handles and is hit by its radius)
HandleOf(e, s, cam, sc) ==
    HandleAt(ToLocal(s, OnScreen(e, cam), Turn(e)), NumDiv(WidthOf(e), I(2)),
             NumDiv(HeightOf(e), I(2)), NumDiv(I(10), Zoom(sc)))

\* localX >= -w/2 && localX <= w/2 && localY >= -h/2 && localY <= h/2
InBox(l, hw, hh) ==
    /\ NumGe(l.x, NumNeg(hw)) /\ NumLe(l.x, hw)
    /\ NumGe(l.y, NumNeg(hh)) /\ NumLe(l.y, hh)

\* The hit test of one entity (box renderers)
Inside(e, s, cam) ==
    InBox(ToLocal(s, OnScreen(e, cam), Turn(e)), NumDiv(WidthOf(e), I(2)),
          NumDiv(HeightOf(e), I(2)))

RECURSIVE FindLast(_, _, _, _)
\* [...entitiesRef.current].reverse().find(hit): the index of the hit, 0 for none
FindLast(ents, i, s, cam) ==
    IF i < 1 THEN 0
    ELSE IF Inside(ents[i], s, cam) THEN i
    ELSE FindLast(ents, i - 1, s, cam)

\* if (isPlaying || isReadOnly) return; and the other early returns
Ignored(what) ==
    /\ trace' = << Ev(0, what, 0, "ignored") >>
    /\ events' = events + 1
    /\ UNCHANGED << scene, assets, nextId, isPlaying, entitiesRef, particlesRef, matterBodies,
                    matterEngine, accumulator, scheduled, loopScene, logs, frames, elapsed,
                    host, canvas, cameraOffset, drawn, selectedEntityId, isDragging,
                    isResizing, isPanning, dragOffset, resizeStart, lastPanPos, gameView, imageState,
                    input, libState >>

\* The focus effect run because the selection became id: the camera moves
\* and draw() runs when the effect's condition holds
Refocused(id) ==
    /\ cameraOffset' = FocusOn(entitiesRef, id, isPlaying, cameraOffset)
    /\ IF id # 0 /\ ~isPlaying /\ FindId(entitiesRef, 1, id) # 0
       THEN \E r \in { Painting(entitiesRef) } :
               /\ Paint(r)
               /\ drawn' = DrawnUpTo(r, Draw(entitiesRef, scene, canvas, cameraOffset',
                                             particlesRef))
       ELSE UNCHANGED << drawn, imageState >>

\* A handle was hit: setIsResizing(handle); resizeStart.current = {...}; return
StartResize(handle, s, e) ==
    /\ isResizing' = handle
    /\ resizeStart' = [x |-> s.x, y |-> s.y, sx |-> GetNum(e, ScaleX), sy |-> GetNum(e, ScaleY),
                       w |-> GetNum(e, << "renderer", "width" >>),
                       h |-> GetNum(e, << "renderer", "height" >>)]
    /\ trace' = << Ev(0, "down", 0, "resize") >>
    /\ UNCHANGED << selectedEntityId, isDragging, isPanning, dragOffset, lastPanPos,
                    cameraOffset, drawn, imageState >>

\* clickedEntity found: select it and start dragging
StartDrag(s, e, o) ==
    /\ selectedEntityId' = e.id
    /\ isDragging' = TRUE
    /\ dragOffset' = [x |-> NumSub(s.x, o.x), y |-> NumSub(s.y, o.y)]
    /\ trace' = << Ev(0, "down", e.id, "drag") >>
    /\ IF e.id # selectedEntityId THEN Refocused(e.id)
       ELSE UNCHANGED << cameraOffset, drawn, imageState >>
    /\ UNCHANGED << isResizing, isPanning, resizeStart, lastPanPos >>

\* Nothing hit: clear the selection and start panning
StartPan(px, py) ==
    /\ selectedEntityId' = 0
    /\ isPanning' = TRUE
    /\ lastPanPos' = [x |-> px, y |-> py]
    /\ trace' = << Ev(0, "down", 0, "pan") >>
    /\ UNCHANGED << isDragging, isResizing, dragOffset, resizeStart,
                    cameraOffset, drawn, imageState >>

\* The hit test and what follows it; k is the index found
Click(s, k, px, py) ==
    IF k # 0 THEN StartDrag(s, entitiesRef[k], OnScreen(entitiesRef[k], cameraOffset))
    ELSE StartPan(px, py)

\* Resize handles first, if an entity is selected; i is its index
DownAt(s, i, px, py) ==
    IF selectedEntityId # 0 /\ i # 0 /\ HandleOf(entitiesRef[i], s, cameraOffset, scene) # ""
    THEN StartResize(HandleOf(entitiesRef[i], s, cameraOffset, scene), s, entitiesRef[i])
    ELSE Click(s, FindLast(entitiesRef, Len(entitiesRef), s, cameraOffset), px, py)

handlePointerDown(px, py) ==
    /\ host = "editor"
    /\ IF isPlaying THEN Ignored("down")
       ELSE /\ DownAt(ScreenOf(px, py, scene, canvas),
                      FindId(entitiesRef, 1, selectedEntityId), px, py)
            /\ events' = events + 1
            /\ UNCHANGED << scene, assets, nextId, isPlaying, entitiesRef, particlesRef,
                            matterBodies, matterEngine, accumulator, scheduled, loopScene,
                            logs, frames, elapsed, host, canvas, gameView, input, libState >>

\* newSx, newSy from the local displacement l since the resize began
Resized(l, handle, st) ==
    [x |-> NumMax(Q(1, 10),
                  IF handle \in {"tl", "bl"}
                  THEN NumSub(st.sx, NumMul(NumDiv(l.x, st.w), I(2)))
                  ELSE NumAdd(st.sx, NumMul(NumDiv(l.x, st.w), I(2)))),
     y |-> NumMax(Q(1, 10),
                  IF handle \in {"tl", "tr"}
                  THEN NumSub(st.sy, NumMul(NumDiv(l.y, st.h), I(2)))
                  ELSE NumAdd(st.sy, NumMul(NumDiv(l.y, st.h), I(2))))]

WithScale(e, sc) ==
    [e EXCEPT !.fields = [@ EXCEPT ![ScaleX] = Num(sc.x), ![ScaleY] = Num(sc.y)]]

WithPosition(e, x, y) ==
    [e EXCEPT !.fields = [@ EXCEPT ![PosX] = Num(x), ![PosY] = Num(y)]]

\* A handler that changed the working copy or the camera and called draw()
Redrawn(ents, cam, what, how) ==
    /\ entitiesRef' = ents
    /\ cameraOffset' = cam
    /\ \E r \in { Painting(ents) } :
          /\ Paint(r)
          /\ drawn' = DrawnUpTo(r, Draw(ents, scene, canvas, cam, particlesRef))
    /\ trace' = << Ev(0, what, 0, how) >>
    /\ events' = events + 1
    /\ UNCHANGED << scene, assets, nextId, isPlaying, particlesRef, matterBodies, matterEngine,
                    accumulator, scheduled, loopScene, logs, frames, elapsed, host, canvas,
                    selectedEntityId, isDragging, isResizing, isPanning, dragOffset,
                    resizeStart, gameView,
                    input, libState >>

\* if (isResizing && selectedEntityId) { ...; return; }
MoveResize(s, i) ==
    IF i = 0 THEN Ignored("move")
    ELSE /\ Redrawn([entitiesRef EXCEPT ![i] =
                        WithScale(@, Resized(Turned(NumSub(s.x, resizeStart.x),
                                                    NumSub(s.y, resizeStart.y),
                                                    Turn(entitiesRef[i])),
                                             isResizing, resizeStart))],
                    cameraOffset, "move", "resize")
         /\ UNCHANGED lastPanPos

\* if (isPanning) { cameraOffset -= delta / zoom; lastPanPos = client; draw(); return; }
MovePan(px, py) ==
    /\ Redrawn(entitiesRef,
               [x |-> NumSub(cameraOffset.x, NumDiv(I(px - lastPanPos.x), Zoom(scene))),
                y |-> NumSub(cameraOffset.y, NumDiv(I(py - lastPanPos.y), Zoom(scene)))],
               "move", "pan")
    /\ lastPanPos' = [x |-> px, y |-> py]

\* if (isDragging && selectedEntityId) { position = screen - dragOffset + cam; draw(); }
MoveDrag(s, i) ==
    IF i = 0 THEN Ignored("move")
    ELSE /\ Redrawn([entitiesRef EXCEPT ![i] =
                        WithPosition(@,
                            NumAdd(NumSub(s.x, dragOffset.x),
                                   NumMul(cameraOffset.x, I(entitiesRef[i].parallax))),
                            NumAdd(NumSub(s.y, dragOffset.y),
                                   NumMul(cameraOffset.y, I(entitiesRef[i].parallax))))],
                    cameraOffset, "move", "drag")
         /\ UNCHANGED lastPanPos

\* A pointer or wheel event on the Game view canvas, mounted with
\* isReadOnly = true (App.tsx 404-413): every handler returns at its first
\* line
ReadOnlyEvent(what) ==
    /\ host = "editor"
    /\ gameView.mounted
    /\ trace' = << Ev(0, what, 0, "readonly") >>
    /\ events' = events + 1
    /\ UNCHANGED << scene, assets, nextId, isPlaying, entitiesRef, particlesRef, matterBodies,
                    matterEngine, accumulator, scheduled, loopScene, logs, frames, elapsed,
                    host, canvas, cameraOffset, drawn, selectedEntityId, isDragging,
                    isResizing, isPanning, dragOffset, resizeStart, lastPanPos, gameView,
                    imageState, input, libState >>

\* handlePointerMove without its first line
handlePointerMoveWhilePlaying(px, py) ==
    /\ host = "editor"
    /\ IF isResizing # "" /\ selectedEntityId # 0
       THEN MoveResize(ScreenOf(px, py, scene, canvas), FindId(entitiesRef, 1, selectedEntityId))
       ELSE IF isPanning THEN MovePan(px, py)
       ELSE IF isDragging /\ selectedEntityId # 0
       THEN MoveDrag(ScreenOf(px, py, scene, canvas), FindId(entitiesRef, 1, selectedEntityId))
       ELSE Ignored("move")

handlePointerMove(px, py) ==
    /\ host = "editor"
    /\ IF isPlaying THEN Ignored("move")
       ELSE IF isResizing # "" /\ selectedEntityId # 0
       THEN MoveResize(ScreenOf(px, py, scene, canvas), FindId(entitiesRef, 1, selectedEntityId))
       ELSE IF isPanning THEN MovePan(px, py)
       ELSE IF isDragging /\ selectedEntityId # 0
       THEN MoveDrag(ScreenOf(px, py, scene, canvas), FindId(entitiesRef, 1, selectedEntityId))
       ELSE Ignored("move")

\* The fields under entity.transform
IsTransform(p) == IsPrefix(<< "transform" >>, p)

\* { ...e, transform }: entity e with the transform of w
WithTransform(e, w) ==
    [e EXCEPT !.fields = [p \in { q \in DOMAIN e.fields : ~IsTransform(q) }
                                    \cup { q \in DOMAIN w.fields : IsTransform(q) } |->
                             IF IsTransform(p) THEN w.fields[p] ELSE e.fields[p]],
              !.isUI = w.isUI, !.anchor = w.anchor]

\* handleEntityTransformChange(id, transform) (App.tsx 206-216)
Committed(sc, id, w) ==
    [sc EXCEPT !.entities = [k \in 1 .. Len(sc.entities) |->
                                IF sc.entities[k].id = id
                                THEN WithTransform(sc.entities[k], w)
                                ELSE sc.entities[k]]]

\* onEntityTransformChange(selectedEntityId, entity.transform), once for
\* every mode that was active; the sync effect follows the new scene
CommitUp(i, n) ==
    /\ CommitScene(Committed(scene, selectedEntityId, entitiesRef[i]))
    /\ trace' = << Ev(0, "up", n, "commit") >>
    /\ UNCHANGED cameraOffset

handlePointerUp ==
    /\ host = "editor"
    /\ IF isPlaying THEN Ignored("up")
       ELSE /\ isResizing' = ""
            /\ isPanning' = FALSE
            /\ isDragging' = FALSE
            /\ events' = events + 1
            /\ IF (isResizing # "" \/ isDragging) /\ selectedEntityId # 0
                  /\ FindId(entitiesRef, 1, selectedEntityId) # 0
               THEN CommitUp(FindId(entitiesRef, 1, selectedEntityId),
                             (IF isResizing # "" THEN 1 ELSE 0) + (IF isDragging THEN 1 ELSE 0))
               ELSE /\ trace' = << Ev(0, "up", 0, "done") >>
                    /\ UNCHANGED << scene, entitiesRef, drawn, cameraOffset, imageState >>
            /\ UNCHANGED << assets, nextId, isPlaying, particlesRef, matterBodies, matterEngine,
                            accumulator, scheduled, loopScene, logs, frames, elapsed, host,
                            canvas, selectedEntityId, dragOffset, resizeStart, lastPanPos,
                            gameView,
                    input, libState >>

\* Math.max(0.1, scale + scaleDelta) on both axes
Wheeled(e, delta) ==
    WithScale(e, [x |-> NumMax(Q(1, 10), NumAdd(GetNum(e, ScaleX), delta)),
                  y |-> NumMax(Q(1, 10), NumAdd(GetNum(e, ScaleY), delta))])

\* handleWheel: scale the selected entity of the working copy, draw, commit
handleWheel(deltaY) ==
    /\ host = "editor"
    /\ IF isPlaying \/ selectedEntityId = 0 \/ FindId(entitiesRef, 1, selectedEntityId) = 0
       THEN Ignored("wheel")
       ELSE /\ CommitScene(Committed(scene, selectedEntityId,
                               Wheeled(entitiesRef[FindId(entitiesRef, 1, selectedEntityId)],
                                       IF deltaY > 0 THEN Q(-1, 10) ELSE Q(1, 10))))
            /\ trace' = << Ev(0, "wheel", 1, "commit") >>
            /\ events' = events + 1
            /\ UNCHANGED << assets, nextId, isPlaying, particlesRef, matterBodies, matterEngine,
                            accumulator, scheduled, loopScene, logs, frames, elapsed, host,
                            canvas, cameraOffset, selectedEntityId, isDragging, isResizing,
                            isPanning, dragOffset, resizeStart, lastPanPos, gameView,
                    input, libState >>

\* Hierarchy: onSelectEntity={setSelectedEntityId} (App.tsx 337-338)
SelectEntity(id) ==
    /\ host = "editor"
    /\ selectedEntityId # id
    /\ selectedEntityId' = id
    /\ Refocused(id)
    /\ UNCHANGED << scene, assets, nextId, isPlaying, entitiesRef, particlesRef, matterBodies,
                    matterEngine, accumulator, scheduled, loopScene, logs, trace, frames,
                    elapsed, host, canvas, isDragging, isResizing,
                    isPanning, dragOffset, resizeStart, lastPanPos, events, gameView,
                    input, libState >>

-----------------------------------------------------------------------------
(* Prefabs (App.tsx 148-195) *)

PrefabOffset == 20

\* const { id, ...entityData } = JSON.parse(JSON.stringify(entity)); the
\* asset holds JSON.stringify(entityData).  An id of 0 is no id.
PrefabData(e) == [JsonClone(JsonClone(e)) EXCEPT !.id = 0]

\* v + 20 on a parsed JSON value: null counts as 0
Plus(v, n) ==
    IF v.k = "num" THEN Num(NumAdd(ValOf(v), I(n)))
    ELSE IF v.k = "null" THEN Num(I(n)) ELSE Num(NaN)

\* position: { x: position.x + d, y: position.y + d }: a new position object
MovedBy(fields, d) ==
    SetField(SetField(SetField(fields, << "transform" >>, "position", Obj),
                      << "transform", "position" >>, "x", Plus(fields[PosX], d)),
             << "transform", "position" >>, "y", Plus(fields[PosY], d))

\* The same spread without the offset
InstantiateInPlace(data, id, prefabId) ==
    [JsonClone(data) EXCEPT !.id = id, !.name = Append(@, "(Instance)"),
                            !.prefabId = prefabId]

\* { ...entityData, id, name: `${name} (Instance)`, prefabId, transform: {...} }
Instantiate(data, id, prefabId) ==
    [JsonClone(data) EXCEPT !.id = id, !.name = Append(@, "(Instance)"),
                            !.prefabId = prefabId, !.fields = MovedBy(@, PrefabOffset)]

\* handleSavePrefab(entityId) and handleAddAsset (App.tsx 148-165, 218-220)
SavePrefab(i) ==
    /\ host = "editor"
    /\ i \in 1 .. Len(scene.entities)
    /\ assets' = Append(assets, [id |-> nextId, name |-> Append(scene.entities[i].name, "Prefab"),
                                 type |-> "prefab", data |-> PrefabData(scene.entities[i])])
    /\ nextId' = nextId + 1
    /\ UNCHANGED << scene, isPlaying, entitiesRef, particlesRef, matterBodies, matterEngine,
                    accumulator, scheduled, loopScene, logs, trace, frames, elapsed, host,
                    canvas, cameraOffset, drawn, pointerState, gameView, imageState,
                    input, libState >>

\* handleInstantiatePrefab(prefabId) (App.tsx 167-195), then the canvas's
\* sync effect
InstantiatePrefab(a) ==
    /\ host = "editor"
    /\ a \in 1 .. Len(assets)
    /\ assets[a].type = "prefab"
    /\ CommitScene([scene EXCEPT !.entities =
                       Append(@, Instantiate(assets[a].data, nextId, assets[a].id))])
    /\ nextId' = nextId + 1
    /\ UNCHANGED << assets, isPlaying, particlesRef, matterBodies, matterEngine,
                    accumulator, scheduled, loopScene, logs, trace, frames, elapsed, host,
                    canvas, cameraOffset, pointerState, gameView, imageState,
                    input, libState >>

-----------------------------------------------------------------------------
(* The exported bundle's loop (exportGame.ts 350-560) *)

CameraAt(ents, hits) ==
    IF hits = {} THEN [x |-> I(0), y |-> I(0)]
    ELSE [x |-> GetNum(ents[FirstOf(hits)], PosX), y |-> GetNum(ents[FirstOf(hits)], PosY)]

\* Camera follow: the target entity's position, else (0, 0)
ExportCamera(ents, sc) ==
    CameraAt(ents, { i \in 1 .. Len(ents) : sc.targetId # 0 /\ ents[i].id = sc.targetId })

\* The end of one frame of the exported loop
ExportFrame(rawDt, adv, st) ==
    /\ accumulator' = adv.acc
    /\ matterBodies' = adv.bodies
    /\ entitiesRef' = st.ents
    /\ particlesRef' = st.pools
    /\ logs' = st.logs
    /\ \E r \in { IF st.threw THEN NotPainted ELSE Painting(st.ents) } :
          /\ Paint(r)
          /\ trace' = IF st.threw THEN st.trace
                      ELSE Append(st.trace,
                                  Ev(0, "draw", 0, IF r.threw THEN "threw" ELSE "done"))
          /\ drawn' = IF st.threw THEN drawn
                      ELSE DrawnUpTo(r, Draw(st.ents, loopScene, canvas,
                                             ExportCamera(st.ents, loopScene), st.pools))
    /\ elapsed' = elapsed + rawDt
    /\ scheduled' = TRUE

ExportUpdate(rawDt, adv, rnd) ==
    IF adv.hung THEN HangFrame
    ELSE ExportFrame(rawDt, adv,
                     UpdateEntities([ents |-> entitiesRef, pools |-> particlesRef,
                                     logs |-> logs,
                                     trace |-> << Ev(0, "advance", adv.n, "done") >>,
                                     threw |-> FALSE],
                                    1, rawDt, rnd, adv.bodies, FALSE))

\* function loop(time): requestAnimationFrame(loop) comes first, the
\* accumulator takes Math.min(dt, 0.1) and the entities take the raw dt.
ExportTick(rawDt, rnd) ==
    /\ host = "export"
    /\ scheduled
    /\ ExportUpdate(rawDt,
                    Advance(accumulator + Min(rawDt, DtCap), matterBodies,
                            FixedTimestep(loopScene), TRUE, 0),
                    rnd)
    /\ frames' = frames + 1
    /\ UNCHANGED << scene, assets, nextId, isPlaying, matterEngine, loopScene, host,
                    canvas, cameraOffset, pointerState, gameView,
                    input, libState >>

-----------------------------------------------------------------------------
(* Scenes *)

\* handleAddEntity (App.tsx 96-112): the transform and renderer of a new entity
BaseFields(x, y) ==
    (<< >> :> Obj) @@ (<< "transform" >> :> Obj)
    @@ (<< "transform", "position" >> :> Obj) @@ (PosX :> Num(I(x))) @@ (PosY :> Num(I(y)))
    @@ (Rotation :> Num(I(0)))
    @@ (<< "transform", "scale" >> :> Obj)
    @@ (<< "transform", "scale", "x" >> :> Num(I(1)))
    @@ (<< "transform", "scale", "y" >> :> Num(I(1)))
    @@ (<< "renderer" >> :> Obj)
    @@ (<< "renderer", "width" >> :> Num(I(50)))
    @@ (<< "renderer", "height" >> :> Num(I(50)))

\* Inspector, Physics "Add" (part_001 380-389)
PhysicsFields ==
    (<< "physics" >> :> Obj) @@ (<< "physics", "velocity" >> :> Obj)
    @@ (<< "physics", "velocity", "x" >> :> Num(I(0)))
    @@ (<< "physics", "velocity", "y" >> :> Num(I(0)))
    @@ (<< "physics", "gravityScale" >> :> Num(I(1)))

NoEmitter ==
    [present |-> FALSE, emitting |-> FALSE, maxParticles |-> 0, emissionRate |-> 0,
     lifetime |-> 0, lifetimeRange |-> 0, speed |-> 0, speedRange |-> 0,
     angle |-> 0, spread |-> 0]

\* handleAddEntity, type 'particles' (App.tsx 114-129), with the pool size,
\* rate and lifetimes given
Emitter(max, rate, lifetime, range) ==
    [present |-> TRUE, emitting |-> TRUE, maxParticles |-> max, emissionRate |-> rate,
     lifetime |-> lifetime, lifetimeRange |-> range, speed |-> 100, speedRange |-> 20,
     angle |-> -90, spread |-> 45]

NoScript == [type |-> "none", content |-> ""]

Script(body) == [type |-> "custom", content |-> body]

Entity(id, name, x, y) ==
    [id |-> id, name |-> << name >>, prefabId |-> 0, fields |-> BaseFields(x, y),
     isStatic |-> FALSE, isUI |-> FALSE, anchor |-> "", parallax |-> 1,
     particles |-> NoEmitter, anims |-> << >>, script |-> NoScript,
     spriteUrl |-> "", tilesetUrl |-> ""]

WithPhysics(e, static) == [e EXCEPT !.fields = @ @@ PhysicsFields, !.isStatic = static]

Kf(t, v) == [time |-> t, value |-> v]

Anim(path, kfs, loop, ct) ==
    [property |-> path, keyframes |-> kfs, loop |-> loop, playing |-> TRUE,
     currentTime |-> I(ct)]

SceneOf(ents) == [entities |-> ents, fixedTimestep |-> 0, zoom |-> I(0), targetId |-> 0]

UnitRamp == << Kf(0, 0), Kf(Second, 10) >>

\* An emitter, and a falling body whose script throws on every call
SceneParticles ==
    SceneOf(<< [Entity(1, "emitter", 400, 300) EXCEPT
                   !.particles = Emitter(2, 10, Second \div 4, Second \div 10)],
               [WithPhysics(Entity(2, "thrower", 100, 0), FALSE) EXCEPT
                   !.script = Script("throw"),
                   !.anims = << Anim(Rotation, UnitRamp, TRUE, 0) >>] >>)

\* Property paths that do not resolve on an entity without physics
BadPaths ==
    { << "physics", "velocity", "x" >>,    \* entity.physics is undefined, read below it
      << "a", "b", "c" >>,
      << "physics", "gravityScale" >>,     \* the parent is undefined
      << "renderer", "tint", "r" >>,
      << "transform", "opacity" >> }       \* only the final field is missing

\* An entity whose first animation has the path `bad`, followed by a second
\* animation and by a second entity
SceneAnimFault(bad) ==
    SceneOf(<< [Entity(1, "faulty", 10, 10) EXCEPT
                   !.anims = << Anim(bad, UnitRamp, FALSE, 0),
                                Anim(Rotation, UnitRamp, TRUE, 0) >>,
                   !.script = Script("throw")],
               [WithPhysics(Entity(2, "sibling", 100, 0), FALSE) EXCEPT
                   !.anims = << Anim(<< "transform", "scale", "x" >>, UnitRamp, FALSE, 0) >>,
                   !.script = Script("ok")] >>)

Scenes == { SceneParticles } \cup { SceneAnimFault(p) : p \in BadPaths }

\* DEVICES[0] (App.tsx 15)
DefaultCanvas == [w |-> 800, h |-> 600]

-----------------------------------------------------------------------------
(* Initial states *)

\* useState(false), useState(null) and the refs' initial values (types.ts
\* 326-336); App starts with nothing selected (App.tsx 26).
PointerIdle ==
    /\ selectedEntityId = 0
    /\ isDragging = FALSE
    /\ isResizing = ""
    /\ isPanning = FALSE
    /\ dragOffset = [x |-> I(0), y |-> I(0)]
    /\ resizeStart = [x |-> I(0), y |-> I(0), sx |-> I(0), sy |-> I(0), w |-> I(0), h |-> I(0)]
    /\ lastPanPos = [x |-> 0, y |-> 0]
    /\ events = 0
    /\ gameView = NoGameView
    /\ input = NoInput

\* GameCanvas as mounted by App with isPlaying false: the working copy is a
\* copy of the scene, and the sync effect has drawn once.
InitEditor(sc, cv) ==
    /\ PointerIdle
    /\ host = "editor"
    /\ scene = sc
    /\ assets = << >>
    /\ nextId = 100
    /\ isPlaying = FALSE
    /\ entitiesRef = JsonCloneAll(sc.entities)
    /\ particlesRef = EmptyMap
    /\ matterBodies = EmptyMap
    /\ matterEngine = FALSE
    /\ accumulator = 0
    /\ scheduled = FALSE
    /\ loopScene = sc
    /\ logs = << >>
    /\ trace = << >>
    /\ frames = 0
    /\ elapsed = 0
    /\ canvas = cv
    /\ cameraOffset = [x |-> Half(cv.w), y |-> Half(cv.h)]
    /\ drawn = Draw(JsonCloneAll(sc.entities), sc, cv, [x |-> Half(cv.w), y |-> Half(cv.h)],
                    EmptyMap)
    /\ imageCache = PaintingFrom(JsonCloneAll(sc.entities), NoImages, NoLoads).cache
    /\ imageLoads = PaintingFrom(JsonCloneAll(sc.entities), NoImages, NoLoads).loads
    /\ painted = << >>
    /\ objectPool = NoPool
    /\ sound = NoSound

\* The exported page after its script ran up to the first frame request:
\* the scene is inlined as JSON, the bodies exist, the loop is requested.
InitExport(sc, cv) ==
    /\ PointerIdle
    /\ host = "export"
    /\ scene = sc
    /\ assets = << >>
    /\ nextId = 100
    /\ isPlaying = TRUE
    /\ entitiesRef = JsonCloneAll(sc.entities)
    /\ particlesRef = EmptyMap
    /\ matterBodies = CreateBodies(JsonCloneAll(sc.entities))
    /\ matterEngine = TRUE
    /\ accumulator = 0
    /\ scheduled = TRUE
    /\ loopScene = sc
    /\ logs = << >>
    /\ trace = << >>
    /\ frames = 0
    /\ elapsed = 0
    /\ canvas = cv
    /\ cameraOffset = [x |-> I(0), y |-> I(0)]
    /\ drawn = << >>
    /\ imageCache = NoImages
    /\ imageLoads = NoLoads
    /\ painted = << >>
    /\ objectPool = NoPool
    /\ sound = NoSound

-----------------------------------------------------------------------------
(* The play loop: both hosts over the scenes above *)

MaxFrames == 4

\* Frame intervals handed to the loop: 0.05 s and 0.15 s
RawDts == { Second \div 20, 3 * (Second \div 20) }

\* Math.random() results the model draws: for the emission test and the
\* lifetime 0 and 0.75; the angle and speed jitter sit at their midpoint.
Draws == [emit |-> {0, 750}, angle |-> {500}, speed |-> {500}, life |-> {0, 750}]

Init == \E sc \in Scenes : InitEditor(sc, DefaultCanvas) \/ InitExport(sc, DefaultCanvas)

TickEditor ==
    \E rawDt \in RawDts :
        \E rnd \in RndChoices(entitiesRef, particlesRef, Min(rawDt, DtCap), Draws) :
            frames < MaxFrames /\ EditorTick(rawDt, rnd)

TickExport ==
    \E rawDt \in RawDts :
        \E rnd \in RndChoices(entitiesRef, particlesRef, rawDt, Draws) :
            frames < MaxFrames /\ ExportTick(rawDt, rnd)

EditMaxParticles == \E i \in 1 .. 2 : \E v \in 1 .. 2 : SetMaxParticles(i, v)

Next == Play \/ Stop \/ TickEditor \/ TickExport \/ EditMaxParticles

Spec == Init /\ [][Next]_vars

-----------------------------------------------------------------------------
(* Properties of the play loop *)

IsStepped == trace # << >>

Emitters == { i \in 1 .. Len(entitiesRef) : HasEmitter(entitiesRef[i]) }

\* C1: after every simulation step, the pool of every emitter holds at most
\* the emitter's maxParticles particles.
C1_PoolWithinMax ==
    IsStepped =>
        \A i \in Emitters :
            Len(PoolOf(particlesRef, entitiesRef[i].id)) <= entitiesRef[i].particles.maxParticles

ThrownAt(k) == trace[k].what = "script" /\ trace[k].how = "threw"

AnimFault == \E k \in DOMAIN trace : trace[k].what = "anim" /\ trace[k].how = "threw"

Before(k, ev) == \E m \in 1 .. k - 1 : trace[m] = ev

AnimBefore(k, i, j) == \E m \in 1 .. k - 1 : /\ trace[m].i = i /\ trace[m].what = "anim"
                                            /\ trace[m].j = j

IsThrown(ev) == ev.what = "script" /\ ev.how = "threw"

\* What the throws of the last step gave console.error, in order
ThrownNames ==
    [k \in 1 .. Len(SelectSeq(trace, IsThrown)) |->
        IF host = "editor" THEN entitiesRef[SelectSeq(trace, IsThrown)[k].i].name ELSE << >>]

LogTail(n) == IF n > Len(logs) THEN << >> ELSE SubSeq(logs, Len(logs) - n + 1, Len(logs))

FullPass(k) ==
    \A i \in 1 .. Len(entitiesRef) :
        /\ Before(k, Ev(i, "sync", 0, "done"))
        /\ Before(k, Ev(i, "particles", 0, "done"))
        /\ \A j \in 1 .. Len(entitiesRef[i].anims) : AnimBefore(k, i, j)
        /\ \E m \in 1 .. k - 1 : trace[m].i = i /\ trace[m].what = "script"

\* C2: a script that throws does not stop the step.  Its entity's read-back,
\* particle and animation updates came first, the step goes on with the next
\* entity (or with draw), every throw is logged (in the editor with the
\* entity's name), and
\* unless an animation raised, every entity was updated, the frame was drawn
\* and the next frame is requested.
C2_ScriptFaultIsolated ==
    /\ \A k \in DOMAIN trace :
          ThrownAt(k) =>
              /\ Before(k, Ev(trace[k].i, "sync", 0, "done"))
              /\ Before(k, Ev(trace[k].i, "particles", 0, "done"))
              /\ \A j \in 1 .. Len(entitiesRef[trace[k].i].anims) : AnimBefore(k, trace[k].i, j)
              /\ k < Len(trace)
              /\ trace[k + 1] = IF trace[k].i < Len(entitiesRef)
                                THEN Ev(trace[k].i + 1, "sync", 0, "done")
                                ELSE Ev(0, "draw", 0, "done")
    /\ LogTail(Len(ThrownNames)) = ThrownNames
    /\ Len(logs) >= Len(ThrownNames)
    /\ (IsStepped /\ ~AnimFault) =>
          /\ trace[Len(trace)] = Ev(0, "draw", 0, "done")
          /\ FullPass(Len(trace))
          /\ scheduled

\* A second frame in which the first entity's script threw and the second
\* entity's animation was still applied
C2_Witness ==
    /\ frames >= 2
    /\ Len(entitiesRef) = 2
    /\ \E k \in DOMAIN trace : ThrownAt(k) /\ trace[k].i = 1
    /\ \E k \in DOMAIN trace : trace[k] = Ev(2, "anim", 1, "applied")
    /\ Len(logs) >= 2

\* C3: an animation whose path does not resolve raises nothing: no animation
\* update ends the step, so every entity is updated and the frame is drawn.
C3_UnresolvedPathSilent ==
    IsStepped =>
        /\ ~AnimFault
        /\ trace[Len(trace)] = Ev(0, "draw", 0, "done")
        /\ FullPass(Len(trace))

\* C4: while playback is on, another tick is scheduled after every tick.
C4_LoopNeverDies == isPlaying => scheduled

Pose(e) == << GetNum(e, PosX), GetNum(e, PosY), GetNum(e, Rotation) >>

SamePoses(a, b) == Len(a) = Len(b) /\ \A i \in 1 .. Len(a) : Pose(a[i]) = Pose(b[i])

Position(e) == << GetNum(e, PosX), GetNum(e, PosY) >>

\* Every entity with a physics component is where the other list has it
BodiesStay(a, b) ==
    Len(a) = Len(b) /\ \A i \in 1 .. Len(a) : HasPhysics(a[i]) => Position(a[i]) = Position(b[i])

Stopping == isPlaying /\ ~isPlaying'

-----------------------------------------------------------------------------
(* Animation runs: one entity with one animation of its rotation *)

MaxAnimFrames == 26

\* Frame intervals of 0.05 s and 0.1 s
AnimDts == { Second \div 20, Second \div 10 }

\* Two keyframes at the same time
ZeroSpan == << Kf(0, 0), Kf(0, 10) >>

ThreeKeys == << Kf(0, 0), Kf(Second \div 2, 10), Kf(Second, 4) >>

SceneAnim(kfs, loop) ==
    SceneOf(<< [Entity(1, "animated", 0, 0) EXCEPT
                   !.anims = << Anim(Rotation, kfs, loop, 0) >>] >>)

AnimScenes == { SceneAnim(kfs, loop) : kfs \in {UnitRamp, ZeroSpan, ThreeKeys}, loop \in BOOLEAN }

InitAnim == \E sc \in AnimScenes : InitEditor(sc, DefaultCanvas) \/ InitExport(sc, DefaultCanvas)

TickEditorAnim ==
    \E rawDt \in AnimDts :
        \E rnd \in RndChoices(entitiesRef, particlesRef, Min(rawDt, DtCap), Draws) :
            frames < MaxAnimFrames /\ EditorTick(rawDt, rnd)

TickExportAnim ==
    \E rawDt \in AnimDts :
        \E rnd \in RndChoices(entitiesRef, particlesRef, rawDt, Draws) :
            frames < MaxAnimFrames /\ ExportTick(rawDt, rnd)

NextAnim == Play \/ Stop \/ TickEditorAnim \/ TickExportAnim

SpecAnim == InitAnim /\ [][NextAnim]_vars

\* A run of the scene with these keyframes, playing since the cursor was 0
Run(kfs, loop) == isPlaying /\ scene = SceneAnim(kfs, loop)

TheAnim == entitiesRef[1].anims[1]

TheField == GetNum(entitiesRef[1], Rotation)

\* C6 (as stated): non-looping, keyframes (0, 0) and (1, 10), steps summing
\* to exactly 1.0 s: the animation has stopped and the field is 10.
C6_StoppedAtOneSecond ==
    (Run(UnitRamp, FALSE) /\ elapsed = Second) => ~TheAnim.playing /\ TheField = I(10)

\* C6 (amended): at exactly 1.0 s the field is 10 and the cursor is 1.0 but
\* the animation is still playing; at every later step it has stopped, the
\* cursor and the field staying at 1.0 and 10.
C6_StopsAfterOneSecond ==
    Run(UnitRamp, FALSE) =>
        /\ elapsed = Second =>
              TheAnim.playing /\ TheAnim.currentTime = I(Second) /\ TheField = I(10)
        /\ elapsed > Second =>
              ~TheAnim.playing /\ TheAnim.currentTime = I(Second) /\ TheField = I(10)
        /\ elapsed < Second => TheAnim.playing

C6_Witness ==
    /\ Run(UnitRamp, FALSE) /\ elapsed = Second /\ frames >= 10
    /\ TheAnim.playing /\ TheField = I(10)

\* C7: looping, keyframes (0, 0) and (1, 10), steps of at most 0.1 s summing
\* to 2.5 s: the cursor is 0.5, the animation is playing and the field is 5.
C7_LoopWraps ==
    (Run(UnitRamp, TRUE) /\ elapsed = 5 * (Second \div 2)) =>
        /\ TheAnim.currentTime = I(Second \div 2)
        /\ TheAnim.playing
        /\ TheField = I(5)

C7_Witness ==
    /\ host = "editor" /\ Run(UnitRamp, TRUE) /\ elapsed = 5 * (Second \div 2)
    /\ frames >= 25 /\ TheField = I(5)

LastTime(anim) == anim.keyframes[Len(anim.keyframes)].time

\* C8: after every step, the cursor of every animation with two or more
\* keyframes is in [0, time of the last keyframe].
C8_CursorInRange ==
    IsStepped =>
        \A i \in 1 .. Len(entitiesRef) :
            \A j \in 1 .. Len(entitiesRef[i].anims) :
                Len(entitiesRef[i].anims[j].keyframes) >= 2 =>
                    /\ NumGe(entitiesRef[i].anims[j].currentTime, I(0))
                    /\ NumLe(entitiesRef[i].anims[j].currentTime,
                             I(LastTime(entitiesRef[i].anims[j])))

-----------------------------------------------------------------------------
(* Screen-space entities: a world entity and a UI entity *)

MaxDrawFrames == 2

\* DEVICES[0] and DEVICES[3] (App.tsx 15, 18)
Canvases == { DefaultCanvas, [w |-> 1024, h |-> 768] }

SceneUI(anchor, x, y, zoom) ==
    [SceneOf(<< Entity(1, "world", 400, 300),
                [Entity(2, "hud", x, y) EXCEPT !.isUI = TRUE, !.anchor = anchor] >>)
       EXCEPT !.zoom = I(zoom)]

InitDraw ==
    \E cv \in Canvases :
        \/ InitEditor(SceneUI("bottom-right", -10, -10, 0), cv)
        \/ \E a \in Anchors : \E z \in {0, 2} : InitExport(SceneUI(a, -10, -10, z), cv)

EditAnchor == \E a \in Anchors : SetAnchor(2, a)

EditPosition == \E axis \in {"x", "y"} : \E v \in {-10, 0} : SetPosition(2, axis, v)

EditZoom == \E v \in {0, 1, 2} : SetZoom(I(v))

Pan == \E d \in {-40, 40} : cameraOffset.x = Half(canvas.w) /\ PanCamera(d, 0)

TickExportDraw ==
    \E rnd \in RndChoices(entitiesRef, particlesRef, Second \div 20, Draws) :
        frames < MaxDrawFrames /\ ExportTick(Second \div 20, rnd)

\* In the editor every edit is followed by a draw; the exported loop draws
\* each frame.
NextDraw == EditAnchor \/ EditPosition \/ EditZoom \/ Pan \/ TickExportDraw

SpecDraw == InitDraw /\ [][NextDraw]_vars

EntityOf(id) == entitiesRef[CHOOSE i \in 1 .. Len(entitiesRef) : entitiesRef[i].id = id]

\* C9: every UI entity is drawn with its origin at the canvas pixel
\* (anchor point + transform.position), whatever the camera offset and zoom.
C9_UIInScreenSpace ==
    \A k \in DOMAIN drawn :
        drawn[k].ui =>
            /\ drawn[k].x = NumAdd(GetNum(EntityOf(drawn[k].id), PosX),
                                   AnchorOffset(EntityOf(drawn[k].id).anchor, canvas.w, canvas.h)[1])
            /\ drawn[k].y = NumAdd(GetNum(EntityOf(drawn[k].id), PosY),
                                   AnchorOffset(EntityOf(drawn[k].id).anchor, canvas.w, canvas.h)[2])

-----------------------------------------------------------------------------
(* Prefab round trips *)

MaxEntities == 4

MaxAssets == 2

\* An entity with every optional component
ScenePrefab ==
    SceneOf(<< [WithPhysics(Entity(1, "hero", 100, 50), FALSE) EXCEPT
                   !.particles = Emitter(2, 10, Second, Second \div 2),
                   !.script = Script("ok"),
                   !.anims = << Anim(Rotation, UnitRamp, TRUE, 0) >>],
               Entity(2, "wall", 0, 0) >>)

InitPrefab == InitEditor(ScenePrefab, DefaultCanvas)

SaveAny == \E i \in 1 .. Len(scene.entities) : Len(assets) < MaxAssets /\ SavePrefab(i)

InstantiateAny ==
    \E a \in 1 .. Len(assets) : Len(scene.entities) < MaxEntities /\ InstantiatePrefab(a)

\* The first entity is moved between two places
MoveSource == \E v \in {100, 150} : SetPosition(1, "x", v)

NextPrefab == SaveAny \/ InstantiateAny \/ MoveSource

SpecPrefab == InitPrefab /\ [][NextPrefab]_vars

Adds == Len(scene'.entities) = Len(scene.entities) + 1

NewEntity == scene'.entities[Len(scene'.entities)]

Saves == Len(assets') = Len(assets) + 1

NewAsset == assets'[Len(assets')]

SceneIds == { scene.entities[i].id : i \in 1 .. Len(scene.entities) }

\* Equal in everything but id, name, prefabId and the position
AlikeButPlace(e, d) ==
    /\ DOMAIN e.fields = DOMAIN d.fields
    /\ \A q \in DOMAIN e.fields \ {PosX, PosY} : e.fields[q] = d.fields[q]
    /\ e.isStatic = d.isStatic /\ e.isUI = d.isUI /\ e.anchor = d.anchor
    /\ e.parallax = d.parallax /\ e.particles = d.particles
    /\ e.anims = d.anims /\ e.script = d.script

Offset(e, d) ==
    /\ GetNum(e, PosX) = NumAdd(GetNum(d, PosX), I(20))
    /\ GetNum(e, PosY) = NumAdd(GetNum(d, PosY), I(20))

\* What was saved is the entity as it was, less its id
SavedFrom(d, o) == d = [o EXCEPT !.id = 0]

\* C10 (as stated): the instance equals the saved entity in every field
\* except its fresh id and its position, which is the saved one plus (20, 20).
C10_InstanceDiffersInIdAndPlace ==
    [][/\ Saves => \E i \in 1 .. Len(scene.entities) :
                      SavedFrom(NewAsset.data, scene.entities[i])
       /\ Adds => \E a \in 1 .. Len(assets) :
                      /\ NewEntity.id \notin SceneIds \cup {0}
                      /\ AlikeButPlace(NewEntity, assets[a].data)
                      /\ Offset(NewEntity, assets[a].data)
                      /\ NewEntity.name = assets[a].data.name
                      /\ NewEntity.prefabId = assets[a].data.prefabId]_vars

\* C10 (amended): the instance equals the saved entity in every field except
\* its fresh id, its name (the saved name followed by "(Instance)"), its
\* prefabId (the id of the prefab asset) and its position, which is the saved
\* one plus (20, 20).
C10_InstanceOfPrefab ==
    [][/\ Saves => \E i \in 1 .. Len(scene.entities) :
                      SavedFrom(NewAsset.data, scene.entities[i])
       /\ Adds => \E a \in 1 .. Len(assets) :
                      /\ NewEntity.id \notin SceneIds \cup {0}
                      /\ AlikeButPlace(NewEntity, assets[a].data)
                      /\ Offset(NewEntity, assets[a].data)
                      /\ NewEntity.name = Append(assets[a].data.name, "(Instance)")
                      /\ NewEntity.prefabId = assets[a].id]_vars

\* An instance of the prefab of the first entity, saved where it stood
C10_Witness ==
    /\ Len(scene.entities) >= 3 /\ Len(assets) >= 1
    /\ scene.entities[3].prefabId = assets[1].id
    /\ scene.entities[3].id \notin {scene.entities[1].id, scene.entities[2].id}
    /\ AlikeButPlace(scene.entities[3], scene.entities[1])
    /\ Offset(scene.entities[3], scene.entities[1])
    /\ scene.entities[3].name = << "hero", "(Instance)" >>

-----------------------------------------------------------------------------
(* Physics runs: bodies with and without scripts, over the fixed timesteps   *)
(* a stored project can hold                                                 *)

MaxPhysFrames == 3

\* scene.physics.fixedTimestep: absent, 1/30 s, 7/600 s and a negative value
Timesteps == { 0, Second \div 30, 35, -(Second \div 60) }

ScenePhysics(fts) ==
    [SceneOf(<< WithPhysics(Entity(1, "crate", 0, 0), FALSE),
                [WithPhysics(Entity(2, "mover", 50, 0), FALSE) EXCEPT !.script = Script("move")],
                [WithPhysics(Entity(3, "floor", 0, 200), TRUE) EXCEPT !.script = Script("ok")] >>)
       EXCEPT !.fixedTimestep = fts]

InitPhysics ==
    \E fts \in Timesteps :
        InitEditor(ScenePhysics(fts), DefaultCanvas) \/ InitExport(ScenePhysics(fts), DefaultCanvas)

PlayPhysics == ~Hung /\ Play

StopPhysics == ~Hung /\ Stop

TickEditorPhysics ==
    \E rawDt \in RawDts :
        \E rnd \in RndChoices(entitiesRef, particlesRef, Min(rawDt, DtCap), Draws) :
            ~Hung /\ frames < MaxPhysFrames /\ EditorTick(rawDt, rnd)

TickExportPhysics ==
    \E rawDt \in RawDts :
        \E rnd \in RndChoices(entitiesRef, particlesRef, rawDt, Draws) :
            ~Hung /\ frames < MaxPhysFrames /\ ExportTick(rawDt, rnd)

NextPhysics == PlayPhysics \/ StopPhysics \/ TickEditorPhysics \/ TickExportPhysics

SpecPhysics == InitPhysics /\ [][NextPhysics]_vars

BodyPlace(id) == << matterBodies[id].x, matterBodies[id].y >>

\* C11: after every step, the position of every entity with a body is the
\* body's position.
C11_TransformIsBodyPosition ==
    (IsStepped /\ ~Hung) =>
        \A i \in 1 .. Len(entitiesRef) :
            (HasPhysics(entitiesRef[i]) /\ entitiesRef[i].id \in DOMAIN matterBodies) =>
                Position(entitiesRef[i]) = BodyPlace(entitiesRef[i].id)

\* C12: whatever scene.physics.fixedTimestep holds, the step's fixed
\* timestep is positive and its catch-up loop ends.
C12_TimestepPositiveLoopEnds ==
    IsStepped => (FixedTimestep(loopScene) > 0 /\ ~Hung)

Stepping == frames' = frames + 1 /\ ~Hung'

\* min(dt, 0.1) of the step being taken
Added == Min(elapsed' - elapsed, DtCap)

\* C13: with a fixed timestep f > 0, a step adds min(dt, 0.1) to the
\* accumulator, advances the engine floor((accumulator + min(dt, 0.1)) / f)
\* times (every moving body falling that many units) and leaves the
\* remainder, 0 <= accumulator < f, for the next step.
C13_AccumulatorCarries ==
    [][(Stepping /\ FixedTimestep(loopScene) > 0) =>
          /\ Added <= DtCap
          /\ trace'[1] = Ev(0, "advance", (accumulator + Added) \div FixedTimestep(loopScene),
                            "done")
          /\ accumulator' = (accumulator + Added) % FixedTimestep(loopScene)
          /\ accumulator' >= 0 /\ accumulator' < FixedTimestep(loopScene)
          /\ \A id \in DOMAIN matterBodies :
                matterBodies'[id].y =
                    IF matterBodies[id].isStatic THEN matterBodies[id].y
                    ELSE NumAdd(matterBodies[id].y, I(trace'[1].j))]_vars

\* A later step that advanced more than once and carried a remainder over
C13_Witness ==
    /\ frames >= 2 /\ IsStepped /\ ~Hung
    /\ loopScene.fixedTimestep = 35
    /\ trace[1].what = "advance" /\ trace[1].j >= 2
    /\ accumulator > 0

-----------------------------------------------------------------------------
(* Emission runs: the default emitter (rate 10, at most 100 particles) over  *)
(* steps of 0.05 s                                                           *)

MaxPoolFrames == 102

\* The default lifetime, 2 s give or take 0.25 s, and one that outlasts the run
Lifetimes == { [lifetime |-> 2 * Second, range |-> Second \div 2],
               [lifetime |-> 6 * Second, range |-> 0] }

ScenePool(l) ==
    SceneOf(<< [Entity(1, "emitter", 400, 300) EXCEPT
                   !.particles = Emitter(100, 10, l.lifetime, l.range)] >>)

\* The steps in which Math.random() may come out at or above frac, and the
\* steps whose particle may draw the shortest lifetime instead of the longest
MissSteps == { 2, 70 }

ShortSteps == { 3 }

PoolDraws(step) ==
    [emit |-> IF step \in MissSteps THEN {0, 750} ELSE {0},
     angle |-> {500}, speed |-> {500},
     life |-> IF step \in ShortSteps THEN {0, 999} ELSE {999}]

PoolDt == Second \div 20

InitPool ==
    \E l \in Lifetimes :
        InitEditor(ScenePool(l), DefaultCanvas) \/ InitExport(ScenePool(l), DefaultCanvas)

TickEditorPool ==
    \E rnd \in RndChoices(entitiesRef, particlesRef, PoolDt, PoolDraws(frames + 1)) :
        frames < MaxPoolFrames /\ EditorTick(PoolDt, rnd)

TickExportPool ==
    \E rnd \in RndChoices(entitiesRef, particlesRef, PoolDt, PoolDraws(frames + 1)) :
        frames < MaxPoolFrames /\ ExportTick(PoolDt, rnd)

NextPool == Play \/ TickEditorPool \/ TickExportPool

SpecPool == InitPool /\ [][NextPool]_vars

ThePool == PoolOf(particlesRef, 1)

\* The most steps a particle of the emitter stays in the pool
LongestStay(cfg) == (Jitter(cfg.lifetime, RandomUnit - 1, cfg.lifetimeRange) + PoolDt - 1) \div PoolDt

-----------------------------------------------------------------------------
(* Pointer runs: three overlapping boxes, the middle one a UI entity, under  *)
(* a few pointer positions                                                   *)

MaxEvents == 4

ScenePointer ==
    SceneOf(<< Entity(1, "crate", 400, 300),
               [Entity(2, "hud", 420, 300) EXCEPT !.isUI = TRUE, !.anchor = "top-left"],
               Entity(3, "lamp", 440, 300) >>)

\* Inside hud and lamp; inside crate and hud; on lamp's lower right corner;
\* on nothing
Points == { << 430, 300 >>, << 410, 300 >>, << 460, 320 >>, << 100, 100 >> }

InitPointer == InitEditor(ScenePointer, DefaultCanvas)

Down == \E p \in Points : events < MaxEvents /\ handlePointerDown(p[1], p[2])

Move == \E p \in Points : events < MaxEvents /\ handlePointerMove(p[1], p[2])

Up == events < MaxEvents /\ handlePointerUp

Wheel == \E deltaY \in {-100, 100} : events < MaxEvents /\ handleWheel(deltaY)

Select == \E id \in {1, 3} : events = 0 /\ SelectEntity(id)

NextPointer == Down \/ Move \/ Up \/ Wheel \/ Select \/ Play \/ Stop

SpecPointer == InitPointer /\ [][NextPointer]_vars

Modes ==
    (IF isDragging THEN {"dragging"} ELSE {}) \cup (IF isResizing # "" THEN {"resizing"} ELSE {})
    \cup (IF isPanning THEN {"panning"} ELSE {})

\* C15: in every state of the editor canvas at most one of dragging,
\* resizing and panning is active.
C15_OneModeAtATime == Cardinality(Modes) <= 1
Handled == events' = events + 1

\* Entity k of the scene is after the step what it was before, but for its scale
OnlyScaleChanged(k) ==
    scene'.entities[k] =
        WithScale(scene.entities[k], [x |-> GetNum(scene'.entities[k], ScaleX),
                                      y |-> GetNum(scene'.entities[k], ScaleY)])

\* C16: a pointer-down or pointer-move leaves the scene alone; a pointer-up
\* changes it by at most one commit, which carries the transform of the
\* selected entity of the working copy; a wheel event changes the scale of
\* an entity of the scene and nothing else.
C16_CommitsOnlyOnUp ==
    [][Handled =>
          /\ trace'[1].what \in {"down", "move"} => scene' = scene
          /\ trace'[1].what = "up" =>
                \/ trace'[1].j = 0 /\ scene' = scene
                \/ /\ trace'[1].j = 1
                   /\ scene' = Committed(scene, selectedEntityId,
                                         entitiesRef[FindId(entitiesRef, 1, selectedEntityId)])
          /\ trace'[1].what = "wheel" =>
                /\ Len(scene'.entities) = Len(scene.entities)
                /\ \A k \in 1 .. Len(scene.entities) : OnlyScaleChanged(k)]_vars

\* Where the pointer is while the selected entity is dragged
PointerAt ==
    [x |-> NumAdd(dragOffset.x, OnScreen(EntityOf(selectedEntityId), cameraOffset).x),
     y |-> NumAdd(dragOffset.y, OnScreen(EntityOf(selectedEntityId), cameraOffset).y)]

\* The entity drawn last among those the screen point s lies inside
Topmost(s) ==
    drawn[CHOOSE k \in DOMAIN drawn :
              /\ Inside(EntityOf(drawn[k].id), s, cameraOffset)
              /\ \A m \in DOMAIN drawn :
                    m > k => ~Inside(EntityOf(drawn[m].id), s, cameraOffset)].id

\* C17: the entity a pointer-down selects is the one drawn last among the
\* entities the pointer lies inside.
C17_TopmostSelected ==
    (trace # << >> /\ trace[1].what = "down" /\ trace[1].how = "drag") =>
        selectedEntityId = Topmost(PointerAt)

\* C18: while playback is stopped in the editor no frame callback is
\* pending and no step runs, from the stop until play is pressed again.
C18_StoppedLoopIsIdle ==
    /\ [](host = "editor" /\ ~isPlaying => ~scheduled)
    /\ [][host = "editor" /\ ~isPlaying => frames' = frames /\ accumulator' = accumulator]_vars

\* Stopped after the loop has run steps
C18_Witness == host = "editor" /\ ~isPlaying /\ frames >= 2 /\ ~scheduled /\ ~matterEngine
-----------------------------------------------------------------------------
(* Order runs: one entity with a body, an emitter, an animation of its       *)
(* position and a script that moves it                                       *)

MaxOrderFrames == 3

SceneOrder ==
    SceneOf(<< [Entity(1, "post", 100, 100) EXCEPT !.script = Script("ok")],
               [WithPhysics(Entity(2, "probe", 400, 0), FALSE) EXCEPT
                   !.particles = Emitter(100, 20, 2 * Second, Second \div 2),
                   !.anims = << Anim(PosX, UnitRamp, TRUE, 0) >>,
                   !.script = Script("move")] >>)

\* Math.random() results drawn in these runs: every jitter at its midpoint
OrderDraws == [emit |-> {0}, angle |-> {500}, speed |-> {500}, life |-> {500}]

InitOrder == InitEditor(SceneOrder, DefaultCanvas) \/ InitExport(SceneOrder, DefaultCanvas)

TickEditorOrder ==
    \E rawDt \in RawDts :
        \E rnd \in RndChoices(entitiesRef, particlesRef, Min(rawDt, DtCap), OrderDraws) :
            frames < MaxOrderFrames /\ EditorTick(rawDt, rnd)

TickExportOrder ==
    \E rawDt \in RawDts :
        \E rnd \in RndChoices(entitiesRef, particlesRef, rawDt, OrderDraws) :
            frames < MaxOrderFrames /\ ExportTick(rawDt, rnd)

NextOrder == Play \/ Stop \/ TickEditorOrder \/ TickExportOrder

SpecOrder == InitOrder /\ [][NextOrder]_vars

\* Where event ev stands in the trace of the step just taken
Place(ev) == CHOOSE k \in DOMAIN trace' : trace'[k] = ev

\* C19: in a step, an entity's read-back comes before its particles, these
\* before its animations and these before its script: the particle the step
\* emits starts at the body's position, the animation then sets x, and the
\* script's x += 100 * dt is added to the animated value.
C19_ReadBackParticlesAnimsScript ==
    [][Stepping =>
          /\ Place(Ev(2, "sync", 0, "done")) < Place(Ev(2, "particles", 0, "done"))
          /\ Place(Ev(2, "particles", 0, "done")) < Place(Ev(2, "anim", 1, "applied"))
          /\ Place(Ev(2, "anim", 1, "applied")) < Place(Ev(2, "script", 0, "done"))
          /\ GetNum(entitiesRef'[2], PosY) = matterBodies'[2].y
          /\ particlesRef'[2][Len(particlesRef'[2])].x = matterBodies'[2].x
          /\ particlesRef'[2][Len(particlesRef'[2])].y = matterBodies'[2].y
          /\ GetNum(entitiesRef'[2], PosX) =
                NumAdd(LerpPair(UnitRamp, entitiesRef'[2].anims[1].currentTime),
                       Q(100 * (elapsed' - elapsed), Second))]_vars

\* A later step: the body has fallen and the script moved the entity off it
C19_Witness ==
    /\ frames >= 2 /\ IsStepped
    /\ Len(particlesRef[2]) >= 2
    /\ GetNum(entitiesRef[2], PosX) # matterBodies[2].x
    /\ matterBodies[2].y # I(0)
-----------------------------------------------------------------------------
(* Frames of the whole page: in the editor the Scene view canvas and, while  *)
(* playing, the Game view canvas each run their loop; the export has one     *)

MaxViewFrames == 3

SceneScripts ==
    SceneOf(<< [Entity(1, "first", 0, 0) EXCEPT !.script = Script("move")],
               Entity(2, "plain", 50, 0),
               [Entity(3, "empty", 50, 50) EXCEPT !.script = Script("")],
               [WithPhysics(Entity(4, "last", 100, 0), FALSE) EXCEPT !.script = Script("ok")] >>)

InitViews == InitEditor(SceneScripts, DefaultCanvas) \/ InitExport(SceneScripts, DefaultCanvas)

TickSceneView ==
    \E rawDt \in RawDts :
        \E rnd \in RndChoices(entitiesRef, particlesRef, Min(rawDt, DtCap), Draws) :
            frames < MaxViewFrames /\ EditorTick(rawDt, rnd)

TickGameView ==
    \E rawDt \in RawDts :
        \E rnd \in RndChoices(gameView.entitiesRef, gameView.particlesRef,
                              Min(rawDt, DtCap), Draws) :
            gameView.frames < MaxViewFrames /\ GameViewTick(rawDt, rnd)

TickExportViews ==
    \E rawDt \in RawDts :
        \E rnd \in RndChoices(entitiesRef, particlesRef, rawDt, Draws) :
            frames < MaxViewFrames /\ ExportTick(rawDt, rnd)

NextViews == Play \/ Stop \/ TickSceneView \/ TickGameView \/ TickExportViews

SpecViews == InitViews /\ [][NextViews]_vars

\* The entities whose script ran, in the order of the calls
ScriptCalls(tr) == SelectSeq(tr, LAMBDA ev : ev.what = "script" /\ ev.how # "none")

\* The calls of a display frame: those of every canvas of the page
FrameCalls == ScriptCalls(trace) \o ScriptCalls(gameView.trace)

\* Every loop of the page has run its callback for the same display frame
FrameDone ==
    /\ isPlaying /\ frames > 0
    /\ host = "editor" => gameView.frames = frames

Scripted == { i \in 1 .. Len(entitiesRef) : HasScript(entitiesRef[i]) }

\* C20: in a frame, the script of every entity with script text is called
\* exactly once, the calls following the scene order.
C20_EachScriptOncePerFrame ==
    FrameDone =>
        /\ \A i \in Scripted : Cardinality({ k \in DOMAIN FrameCalls : FrameCalls[k].i = i }) = 1
        /\ \A k \in DOMAIN FrameCalls : FrameCalls[k].i \in Scripted
        /\ \A k, m \in DOMAIN FrameCalls : k < m => FrameCalls[k].i < FrameCalls[m].i

-----------------------------------------------------------------------------
(* The Scene Model and the working copy *)

\* A step of the loop of the Scene view canvas or of the Game view canvas
SimulationStep == frames' # frames \/ gameView'.frames > gameView.frames

\* An edit of the Scene Model made while the loop plays
EditWhilePlaying == isPlaying /\ isPlaying' /\ scene' # scene

\* C21: while playing, a change of the Scene Model leaves the working copy
\* of each canvas as it was, and a simulation step leaves the Scene Model
\* as it was.
C21_SceneAndWorkingCopyApart ==
    [][/\ EditWhilePlaying =>
            /\ entitiesRef' = entitiesRef
            /\ gameView'.entitiesRef = gameView.entitiesRef
       /\ SimulationStep => scene' = scene]_vars

\* Playing, stepped, the scene edited since play began and the working copy
\* moved on by the simulation
C21_Witness ==
    /\ host = "editor" /\ isPlaying /\ frames >= 1
    /\ scene # loopScene
    /\ entitiesRef # JsonCloneAll(scene.entities)
    /\ entitiesRef # JsonCloneAll(loopScene.entities)

-----------------------------------------------------------------------------
(* Sprites and tilesets: frames interleaved with the ends of image loads *)

MaxImageFrames == 3

\* Two sprites of one URL, one of them a UI entity, a tile map and a box
SceneImages ==
    SceneOf(<< [Entity(1, "hero", 400, 300) EXCEPT !.spriteUrl = "hero.png"],
               [Entity(2, "twin", 20, 20) EXCEPT !.spriteUrl = "hero.png", !.isUI = TRUE,
                                                 !.anchor = "top-left"],
               [Entity(3, "map", 0, 0) EXCEPT !.tilesetUrl = "tiles.png"],
               Entity(4, "box", 100, 100) >>)

InitImages == InitEditor(SceneImages, DefaultCanvas) \/ InitExport(SceneImages, DefaultCanvas)

TickSceneImages ==
    \E rawDt \in RawDts :
        \E rnd \in RndChoices(entitiesRef, particlesRef, Min(rawDt, DtCap), OrderDraws) :
            frames < MaxImageFrames /\ EditorTick(rawDt, rnd)

TickGameImages ==
    \E rawDt \in RawDts :
        \E rnd \in RndChoices(gameView.entitiesRef, gameView.particlesRef,
                              Min(rawDt, DtCap), OrderDraws) :
            gameView.frames < MaxImageFrames /\ GameViewTick(rawDt, rnd)

TickExportImages ==
    \E rawDt \in RawDts :
        \E rnd \in RndChoices(entitiesRef, particlesRef, rawDt, OrderDraws) :
            frames < MaxImageFrames /\ ExportTick(rawDt, rnd)

LoadEnds == \E u \in Urls : ImageLoaded(u)

LoadFails == \E u \in Urls : ImageFailed(u)

NextImages ==
    Play \/ Stop \/ TickSceneImages \/ TickGameImages \/ TickExportImages \/ LoadEnds
    \/ LoadFails

SpecImages == InitImages /\ [][NextImages]_vars

\* No image of the cache failed to load
NoBroken == \A u \in Urls : imageCache[u] # "broken"

\* The cache has no entry for the URL, or one whose load has not ended
Pending(url) == url # "" /\ imageCache[url] \in { "absent", "loading" }

\* The cache has an entry for the URL and its load ended well
Ready(url) == url # "" /\ imageCache[url] = "complete"

\* The draw() of this step called drawImage for the sprite / tiles of e
PaintedNow(e, what) ==
    \E k \in DOMAIN painted' : painted'[k].id = e.id /\ painted'[k].what = what

\* The draw() of this step, over ents and leaving the placements `placed`
FrameDraws(ents, placed) ==
    /\ \A i \in DOMAIN ents :
          /\ Pending(ents[i].spriteUrl) => ~PaintedNow(ents[i], "sprite")
          /\ Pending(ents[i].tilesetUrl) => ~PaintedNow(ents[i], "tiles")
          /\ NoBroken /\ Ready(ents[i].spriteUrl) => PaintedNow(ents[i], "sprite")
          /\ NoBroken /\ Ready(ents[i].tilesetUrl) => PaintedNow(ents[i], "tiles")
    /\ NoBroken => { placed[k].id : k \in DOMAIN placed } = { ents[i].id : i \in DOMAIN ents }

\* C22: the load of a URL is started at most once; every drawImage of a
\* draw() is for a URL whose cache entry exists with its load complete; and
\* a frame that finds the entry of an entity's URL absent or still loading
\* draws nothing for it and still draws all the entities, whenever the
\* loads end between the frames.
C22_ImagesLoadedOnceDrawnWhenComplete ==
    /\ [](\A u \in Urls : imageLoads[u] <= 1)
    /\ [](\A k \in DOMAIN painted : imageCache[painted[k].url] = "complete")
    /\ [][/\ frames' # frames => FrameDraws(entitiesRef', drawn')
          /\ gameView'.frames > gameView.frames =>
                FrameDraws(gameView'.entitiesRef, gameView'.drawn)]_vars

\* After two frames or more the sprites of both entities were drawn from
\* the one load of hero.png while the tiles are still loading, and all
\* four entities were placed
C22_Witness ==
    /\ frames >= 2
    /\ imageLoads = [u \in Urls |-> 1]
    /\ imageCache["tiles.png"] = "loading"
    /\ { << painted[k].id, painted[k].what >> : k \in DOMAIN painted } =
           { << 1, "sprite" >>, << 2, "sprite" >> }
    /\ Len(drawn) = 4

\* The load of u ended in this step, and not with the load event
FailsNow(u) == imageCache[u] = "loading" /\ imageCache'[u] \notin { "loading", "complete" }

\* C23: when the load of an image fails the cache holds no entry for its
\* URL afterwards and the failure is logged once; from then on the entity
\* is not drawn and the frames go on without an exception.
C23_FailedImageLeavesNoEntry ==
    /\ [][\A u \in Urls : FailsNow(u) =>
             imageCache'[u] = "absent" /\ Len(logs') = Len(logs) + 1]_vars
    /\ [](\A k \in DOMAIN trace : trace[k].how # "threw")

-----------------------------------------------------------------------------
(* Keyboard and mouse events interleaved with the frames of the editor *)

MaxInputFrames == 2

Keys == { "Space", "KeyA" }

Buttons == { 0 }

ScenePlayer == SceneOf(<< [Entity(1, "player", 0, 0) EXCEPT !.script = Script("move")] >>)

InitInput == InitEditor(ScenePlayer, DefaultCanvas)

TickSceneInput ==
    \E rnd \in RndChoices(entitiesRef, particlesRef, Second \div 20, OrderDraws) :
        frames < MaxInputFrames /\ EditorTick(Second \div 20, rnd)

TickGameInput ==
    \E rnd \in RndChoices(gameView.entitiesRef, gameView.particlesRef, Second \div 20,
                          OrderDraws) :
        gameView.frames < MaxInputFrames /\ GameViewTick(Second \div 20, rnd)

KeyDown == \E k \in Keys : handleKeyDown(k)

KeyUp == \E k \in Keys : handleKeyUp(k)

MouseDown == \E b \in Buttons : handleMouseDown(b)

MouseUp == \E b \in Buttons : handleMouseUp(b)

NextInput ==
    Play \/ Stop \/ TickSceneInput \/ TickGameInput \/ KeyDown \/ KeyUp \/ MouseDown
    \/ MouseUp

SpecInput == InitInput /\ [][NextInput]_vars

\* C24: 'down' is a level and 'pressed' an edge: a key or button is down
\* exactly while it is held during play, a key-down of a key already down
\* does not set pressed, and every frame of the loop ends with update(), so
\* that a press is reported as pressed in one frame only.
C24_PressedForOneFrame ==
    /\ [][\A k \in Keys :
             ~isKeyPressed(input, k) /\ isKeyPressed(input', k) =>
                 ~isKeyDown(input, k) /\ isKeyDown(input', k)]_vars
    /\ [](\A k \in Keys : isKeyPressed(input, k) \/ isKeyDown(input, k) => isPlaying)
    /\ [][frames' # frames => input' = update(input)]_vars

-----------------------------------------------------------------------------
(* Resize runs: a box turned by 90 degrees and a box whose renderer width   *)
(* the Inspector set to 0, under pointer-downs on their corners, moves and  *)
(* the wheel                                                                 *)

MaxResizeEvents == 4

SceneResize ==
    SceneOf(<< [Entity(1, "crate", 400, 300) EXCEPT !.fields[Rotation] = Num(I(90))],
               [Entity(2, "sliver", 200, 300) EXCEPT
                   !.fields[<< "renderer", "width" >>] = Num(I(0))] >>)

\* The four corners of crate, and the upper end of sliver before and after
\* the camera has focused on it
Corners == { << 375, 275 >>, << 425, 275 >>, << 375, 325 >>, << 425, 325 >>, << 200, 275 >>,
             << 400, 275 >> }

\* Where the pointer goes: far outside, far inside, straight down from the
\* upper end of the focused sliver, and right of it
Targets == { << 500, 400 >>, << 300, 200 >>, << 400, 290 >>, << 430, 275 >> }

InitResize == InitEditor(SceneResize, DefaultCanvas)

SelectAny == \E id \in {1, 2} : events = 0 /\ SelectEntity(id)

DownOnCorner == \E p \in Corners : events < MaxResizeEvents /\ handlePointerDown(p[1], p[2])

MoveTo == \E p \in Targets : events < MaxResizeEvents /\ handlePointerMove(p[1], p[2])

UpResize == events < MaxResizeEvents /\ handlePointerUp

WheelResize == \E deltaY \in {-100, 100} : events < MaxResizeEvents /\ handleWheel(deltaY)

NextResize == SelectAny \/ DownOnCorner \/ MoveTo \/ UpResize \/ WheelResize

SpecResize == InitResize /\ [][NextResize]_vars

\* The last handler was a resize move or a wheel step on the selection
Rescaled ==
    /\ trace # << >>
    /\ \/ trace[1].what = "move" /\ trace[1].how = "resize"
       \/ trace[1].what = "wheel" /\ trace[1].how = "commit"

\* C25: after every resize move and every wheel step the selected entity's
\* scale.x and scale.y are both at least 0.1.
C25_ScaleAtLeastTenth ==
    Rescaled =>
        \A i \in DOMAIN entitiesRef :
            entitiesRef[i].id = selectedEntityId =>
                /\ NumGe(GetNum(entitiesRef[i], ScaleX), Q(1, 10))
                /\ NumGe(GetNum(entitiesRef[i], ScaleY), Q(1, 10))

-----------------------------------------------------------------------------
(* Hit-test runs: a 100 x 50 plank at the middle of the canvas, turned by a *)
(* number of quarter turns                                                  *)

MaxHitEvents == 3

ScenePlank(r) ==
    SceneOf(<< [Entity(1, "plank", 400, 300) EXCEPT
                   !.fields[Rotation] = Num(I(r)),
                   !.fields[<< "renderer", "width" >>] = Num(I(100))] >>)

QuarterTurns == { 0, 90, 180, 270 }

\* From the plank's centre: 40 below, 40 to the right, 10 to the upper left,
\* and 60 right and 40 below
HitPoints == { << 400, 340 >>, << 440, 300 >>, << 390, 290 >>, << 460, 340 >> }

InitHit == \E r \in QuarterTurns : InitEditor(ScenePlank(r), DefaultCanvas)

DownHit == \E p \in HitPoints : events < MaxHitEvents /\ handlePointerDown(p[1], p[2])

MoveHit == \E p \in HitPoints : events < MaxHitEvents /\ handlePointerMove(p[1], p[2])

UpHit == events < MaxHitEvents /\ handlePointerUp

NextHit == DownHit \/ MoveHit \/ UpHit

SpecHit == InitHit /\ [][NextHit]_vars

ThePlank == entitiesRef[1]

\* The pointer of the last pointer-down, from the plank's centre
FromCentre ==
    IF trace[1].how = "drag" THEN dragOffset
    ELSE [x |-> NumSub(ScreenOf(lastPanPos.x, lastPanPos.y, scene, canvas).x,
                       OnScreen(ThePlank, cameraOffset).x),
          y |-> NumSub(ScreenOf(lastPanPos.x, lastPanPos.y, scene, canvas).y,
                       OnScreen(ThePlank, cameraOffset).y)]

\* The half extents along the screen axes of a w x h rectangle turned by r
\* quarter-turn degrees: swapped for an odd number of quarter turns
HalfAcross(e) ==
    IF Turn(e) % 180 = 0 THEN NumDiv(WidthOf(e), I(2)) ELSE NumDiv(HeightOf(e), I(2))

HalfDown(e) ==
    IF Turn(e) % 180 = 0 THEN NumDiv(HeightOf(e), I(2)) ELSE NumDiv(WidthOf(e), I(2))

\* The point d from the centre lies in the rectangle as it is drawn
InTurnedBox(d, e) ==
    NumLe(NumAbs(d.x), HalfAcross(e)) /\ NumLe(NumAbs(d.y), HalfDown(e))

\* The last handler was a pointer-down that ran the hit test
HitTested == trace # << >> /\ trace[1].what = "down" /\ trace[1].how \in { "drag", "pan" }

\* C26: a pointer-down hits the rectangle exactly when the pointer lies in
\* the rectangle turned by its rotation about its centre.
C26_HitIsTurnedBox ==
    HitTested => ((trace[1].how = "drag") <=> InTurnedBox(FromCentre, ThePlank))

\* A hit 40 below the centre of the plank standing on end: outside the
\* plank as it would lie unturned
C26_Witness ==
    /\ HitTested /\ trace[1].how = "drag"
    /\ Turn(ThePlank) = 90
    /\ NumGt(NumAbs(FromCentre.y), NumDiv(HeightOf(ThePlank), I(2)))

-----------------------------------------------------------------------------
(* Non-looping animations run to their end, the loop being stepped for as   *)
(* long as it asks for frames                                               *)

MaxStillFrames == 23

StillScenes == { SceneAnim(kfs, FALSE) : kfs \in {UnitRamp, ZeroSpan, ThreeKeys} }

InitStill == \E sc \in StillScenes : InitEditor(sc, DefaultCanvas) \/ InitExport(sc, DefaultCanvas)

TickEditorStill ==
    \E rawDt \in AnimDts :
        \E rnd \in RndChoices(entitiesRef, particlesRef, Min(rawDt, DtCap), OrderDraws) :
            frames < MaxStillFrames /\ EditorTick(rawDt, rnd)

TickExportStill ==
    \E rawDt \in AnimDts :
        \E rnd \in RndChoices(entitiesRef, particlesRef, rawDt, OrderDraws) :
            frames < MaxStillFrames /\ ExportTick(rawDt, rnd)

NextStill == Play \/ TickEditorStill \/ TickExportStill

\* A frame of the loop runs: the tick of either host, seen by its count
FrameRunsStill == scheduled /\ ~Hung /\ frames < MaxStillFrames /\ frames' = frames + 1

\* The browser runs every requested frame, and the user presses Play
SpecStill ==
    /\ InitStill /\ [][NextStill]_vars
    /\ WF_vars(Play) /\ WF_frames(FrameRunsStill)

\* The animation has stopped with its cursor on the last keyframe's time
AtEnd == ~TheAnim.playing /\ TheAnim.currentTime = I(LastTime(TheAnim))

\* C27: a non-looping animation with two keyframes or more, stepped with
\* dt > 0, reaches playing = false with its cursor at the last keyframe's
\* time, and no later step changes the cursor or writes the target field.
C27_NonLoopingEndsAndStays ==
    /\ <>AtEnd
    /\ [][(frames' # frames /\ ~TheAnim.playing) =>
             /\ entitiesRef'[1].anims[1] = TheAnim
             /\ entitiesRef'[1].fields = entitiesRef[1].fields
             /\ \E k \in DOMAIN trace' : trace'[k].what = "anim" /\ trace'[k].how = "idle"]_vars

\* Stopped at the end, and stepped again since
C27_Witness ==
    /\ AtEnd /\ frames >= 12
    /\ \E k \in DOMAIN trace : trace[k].what = "anim" /\ trace[k].how = "idle"
    /\ scene = SceneAnim(ThreeKeys, FALSE) /\ TheField = I(4)

-----------------------------------------------------------------------------
(* Interpolation runs: three keyframes, the first at 0 or at 0.2 s *)

MaxLerpFrames == 8

LateStart == << Kf(Second \div 5, 2), Kf(Second \div 2, 10), Kf(Second, 4) >>

LerpScenes == { SceneAnim(kfs, loop) : kfs \in {ThreeKeys, LateStart}, loop \in BOOLEAN }

InitLerp == \E sc \in LerpScenes : InitEditor(sc, DefaultCanvas) \/ InitExport(sc, DefaultCanvas)

TickEditorLerp ==
    \E rawDt \in AnimDts :
        \E rnd \in RndChoices(entitiesRef, particlesRef, Min(rawDt, DtCap), OrderDraws) :
            frames < MaxLerpFrames /\ EditorTick(rawDt, rnd)

TickExportLerp ==
    \E rawDt \in AnimDts :
        \E rnd \in RndChoices(entitiesRef, particlesRef, rawDt, OrderDraws) :
            frames < MaxLerpFrames /\ ExportTick(rawDt, rnd)

NextLerp == Play \/ Stop \/ TickEditorLerp \/ TickExportLerp

SpecLerp == InitLerp /\ [][NextLerp]_vars

\* The keyframe times ascend strictly
Ascending(kfs) == \A i \in 1 .. Len(kfs) - 1 : kfs[i].time < kfs[i + 1].time

\* The last step wrote the animated field
Written == \E k \in DOMAIN trace : trace[k].what = "anim" /\ trace[k].how = "applied"

\* v lies between a and b
Between(v, a, b) ==
    \/ NumLe(I(a), v) /\ NumLe(v, I(b))
    \/ NumLe(I(b), v) /\ NumLe(v, I(a))

\* v is on the line through keyframes p and q at time ct:
\* (v - p.value) * (q.time - p.time) = (q.value - p.value) * (ct - p.time)
OnLine(v, p, q, ct) ==
    NumMul(NumSub(v, I(p.value)), I(q.time - p.time)) =
        NumMul(I(q.value - p.value), NumSub(ct, I(p.time)))

\* C28: with strictly ascending keyframe times and the cursor within the
\* first and the last of them, the value written is the keyframe's value at
\* a keyframe's time and otherwise lies between the values of the two
\* keyframes around the cursor, on the line through them.
C28_PiecewiseLinear ==
    (/\ Written /\ Ascending(TheAnim.keyframes)
     /\ NumGe(TheAnim.currentTime, I(TheAnim.keyframes[1].time))
     /\ NumLe(TheAnim.currentTime, I(LastTime(TheAnim)))) =>
        /\ \A i \in DOMAIN TheAnim.keyframes :
              TheAnim.currentTime = I(TheAnim.keyframes[i].time) =>
                  TheField = I(TheAnim.keyframes[i].value)
        /\ \A i \in 1 .. Len(TheAnim.keyframes) - 1 :
              (/\ NumLt(I(TheAnim.keyframes[i].time), TheAnim.currentTime)
               /\ NumLt(TheAnim.currentTime, I(TheAnim.keyframes[i + 1].time))) =>
                  /\ Between(TheField, TheAnim.keyframes[i].value,
                             TheAnim.keyframes[i + 1].value)
                  /\ OnLine(TheField, TheAnim.keyframes[i], TheAnim.keyframes[i + 1],
                            TheAnim.currentTime)

\* Three quarters of a second into (0,0), (0.5,10), (1,4): 7 was written
C28_Witness ==
    /\ Written /\ TheAnim.keyframes = ThreeKeys
    /\ TheAnim.currentTime = Q(3 * Second, 4 * Second) \/ TheAnim.currentTime = I(3 * (Second \div 4))
    /\ TheField = I(7)

-----------------------------------------------------------------------------
(* Body runs: play and stop toggled, the physics component added and        *)
(* removed in the Inspector when stopped and when playing                    *)

MaxBodyFrames == 2

SceneBodies ==
    SceneOf(<< WithPhysics(Entity(1, "crate", 0, 0), FALSE),
               Entity(2, "sign", 50, 0),
               WithPhysics(Entity(3, "floor", 0, 200), TRUE) >>)

InitBodies == InitEditor(SceneBodies, DefaultCanvas) \/ InitExport(SceneBodies, DefaultCanvas)

\* const { physics, ...rest } = entity
WithoutPhysics(e) ==
    [e EXCEPT !.fields = [p \in { q \in DOMAIN e.fields : q = << >> \/ q[1] # "physics" } |-> e.fields[p]],
              !.isStatic = FALSE]

\* Inspector: the Add / Remove button of the Physics section (part_001 377-396)
TogglePhysics(i) ==
    /\ host = "editor"
    /\ i \in 1 .. Len(scene.entities)
    /\ CommitScene([scene EXCEPT !.entities[i] =
                       IF HasPhysics(@) THEN WithoutPhysics(@) ELSE WithPhysics(@, FALSE)])
    /\ UNCHANGED << assets, nextId, isPlaying, particlesRef, matterBodies, matterEngine,
                    accumulator, scheduled, loopScene, logs, trace, frames, elapsed, host,
                    canvas, cameraOffset, pointerState, gameView,
                    input, libState >>

ToggleAny == \E i \in 1 .. 3 : TogglePhysics(i)

TickEditorBodies ==
    \E rnd \in RndChoices(entitiesRef, particlesRef, Second \div 20, Draws) :
        frames < MaxBodyFrames /\ EditorTick(Second \div 20, rnd)

TickExportBodies ==
    \E rnd \in RndChoices(entitiesRef, particlesRef, Second \div 20, Draws) :
        frames < MaxBodyFrames /\ ExportTick(Second \div 20, rnd)

TickGameBodies ==
    \E rnd \in RndChoices(gameView.entitiesRef, gameView.particlesRef, Second \div 20, Draws) :
        gameView.frames < MaxBodyFrames /\ GameViewTick(Second \div 20, rnd)

NextBodies ==
    Play \/ Stop \/ ToggleAny \/ TickEditorBodies \/ TickExportBodies \/ TickGameBodies

SpecBodies == InitBodies /\ [][NextBodies]_vars

\* The ids of the entities of a list that have a physics component
PhysicsIds(ents) == { ents[i].id : i \in { k \in 1 .. Len(ents) : HasPhysics(ents[k]) } }

\* One body per entity with a physics component, under the entity's id
OneBodyEach(bodies, ents) ==
    /\ DOMAIN bodies = PhysicsIds(ents)
    /\ Cardinality(DOMAIN bodies) =
           Cardinality({ k \in 1 .. Len(ents) : HasPhysics(ents[k]) })

PlayStarts == ~isPlaying /\ isPlaying'

StaysPlaying == isPlaying /\ isPlaying'

\* C29: when play starts the body map gets one body per entity of the
\* working copy that has a physics component, under the entity's id, and
\* the map keeps these keys for as long as play lasts, whatever is edited
\* meanwhile; while not playing there is no engine and the map is empty,
\* after any sequence of play and stop.
C29_BodiesWhilePlayingNoneWhenStopped ==
    /\ isPlaying => OneBodyEach(matterBodies, entitiesRef)
    /\ [](isPlaying => matterEngine)
    /\ [](~isPlaying => ~matterEngine /\ matterBodies = EmptyMap /\ ~gameView.mounted)
    /\ [][PlayStarts => /\ OneBodyEach(matterBodies', entitiesRef)
                        /\ OneBodyEach(gameView'.matterBodies, entitiesRef)]_vars
    /\ [][StaysPlaying => /\ DOMAIN matterBodies' = DOMAIN matterBodies
                          /\ DOMAIN gameView'.matterBodies = DOMAIN gameView.matterBodies]_vars

\* Playing again after the sign got a physics component and the crate lost
\* its own, with the crate's component added back during play
C29_Witness ==
    /\ isPlaying /\ frames > 0
    /\ DOMAIN matterBodies = {2, 3}
    /\ HasPhysics(scene.entities[1])

-----------------------------------------------------------------------------
(* Drain runs: an emitter of short-lived particles fills its pool, is        *)
(* switched off in the Inspector after a stop, and is played again           *)

MaxFillFrames == 3

\* Lifetime 0.3 s give or take 0.05 s, ten particles per second
SceneDrain(on) ==
    SceneOf(<< [Entity(1, "emitter", 400, 300) EXCEPT
                   !.particles = [Emitter(5, 10, 3 * (Second \div 10), Second \div 10)
                                    EXCEPT !.emitting = on]] >>)

DrainDraws == [emit |-> {0, 750}, angle |-> {500}, speed |-> {500}, life |-> {0, 999}]

\* The working copy's emitter is switched off
Off == ~entitiesRef[1].particles.emitting

\* The steps that empty any pool of the emitter at the shortest step
DrainSteps == (Jitter(3 * (Second \div 10), RandomUnit - 1, Second \div 10) + Second \div 20 - 1)
                  \div (Second \div 20)

\* Frames are modelled while the emitter fills, and for as long as a
\* switched-off emitter may need to drain
DrainRoom == frames < (IF Off THEN MaxFillFrames + DrainSteps ELSE MaxFillFrames)

InitDrain ==
    \E on \in BOOLEAN :
        InitEditor(SceneDrain(on), DefaultCanvas) \/ InitExport(SceneDrain(on), DefaultCanvas)

TickEditorDrain ==
    \E rawDt \in AnimDts :
        \E rnd \in RndChoices(entitiesRef, particlesRef, Min(rawDt, DtCap), DrainDraws) :
            DrainRoom /\ EditorTick(rawDt, rnd)

TickExportDrain ==
    \E rawDt \in AnimDts :
        \E rnd \in RndChoices(entitiesRef, particlesRef, rawDt, DrainDraws) :
            DrainRoom /\ ExportTick(rawDt, rnd)

\* The user stops a run whose emitter is on
StopDrain == ~Off /\ Stop

\* The user unticks Emitting
SwitchOff == SetEmitting(1, FALSE)

NextDrain == Play \/ StopDrain \/ SwitchOff \/ TickEditorDrain \/ TickExportDrain

FrameRunsDrain == scheduled /\ ~Hung /\ DrainRoom /\ frames' = frames + 1

\* The browser runs every requested frame, and the user presses Play
SpecDrain ==
    /\ InitDrain /\ [][NextDrain]_vars
    /\ WF_vars(Play) /\ WF_frames(FrameRunsDrain)

TheDrainPool == PoolOf(particlesRef, 1)

Drained == Len(TheDrainPool) = 0

\* A step of the loop, and the dt it handed to update()
Stepped == frames' = frames + 1

\* The particles of the pool that outlive a step of dt
Survivors(dt) == Cardinality({ k \in 1 .. Len(TheDrainPool) : TheDrainPool[k].life > dt })

\* The particle at k of the pool after the step was pushed by the step
Pushed(k) == k > Survivors(elapsed' - elapsed)

\* The particle is as emitted: at the emitter, with its whole life left
Fresh(p, e) ==
    /\ p.life = p.maxLife
    /\ p.x = GetNum(e, PosX) /\ p.y = GetNum(e, PosY)

\* C30: a switched-off emitter stepped with dt > 0 reaches an empty pool
\* and its pool stays empty in every later step; and every particle a step
\* emits leaves the step neither aged nor moved, the survivors of the
\* aging coming first in the pool.
C30_OffDrainsEmittedFresh ==
    /\ Off ~> Drained
    /\ [][Off /\ Off' /\ Drained => Len(PoolOf(particlesRef', 1)) = 0]_vars
    /\ [][Stepped =>
            /\ Len(PoolOf(particlesRef', 1)) >= Survivors(elapsed' - elapsed)
            /\ Off => Len(PoolOf(particlesRef', 1)) = Survivors(elapsed' - elapsed)
            /\ \A k \in 1 .. Len(PoolOf(particlesRef', 1)) :
                  Pushed(k) => Fresh(PoolOf(particlesRef', 1)[k], entitiesRef'[1])]_vars

\* Played again with the emitter off, the pool filled before the stop still
\* holds two particles, aged by the steps since
C30_Witness ==
    /\ host = "editor" /\ isPlaying /\ Off /\ IsStepped
    /\ Len(TheDrainPool) = 2
    /\ TheDrainPool[1].life < TheDrainPool[1].maxLife

-----------------------------------------------------------------------------
(* Locked runs: the pointer events of the pointer runs with Play and Stop,   *)
(* and events on the Game view's read-only canvas                            *)

OnGameView ==
    \E what \in { "down", "move", "up", "wheel" } : events < MaxEvents /\ ReadOnlyEvent(what)

NextLocked == Down \/ Move \/ Up \/ Wheel \/ Select \/ Play \/ Stop \/ OnGameView

SpecLocked == InitPointer /\ [][NextLocked]_vars

\* A pointer or wheel handler ran
PointerEvent == events' = events + 1

\* C31: while playing, and on the read-only canvas, a pointer-down,
\* pointer-move, pointer-up or wheel event changes no entity of the working
\* copy or of the scene, no selection, no camera offset and no interaction
\* mode.
C31_EventsIgnoredWhilePlaying ==
    [][PointerEvent /\ (isPlaying \/ trace'[1].how = "readonly") =>
          /\ entitiesRef' = entitiesRef /\ scene' = scene
          /\ gameView' = gameView
          /\ selectedEntityId' = selectedEntityId
          /\ cameraOffset' = cameraOffset
          /\ isDragging' = isDragging /\ isResizing' = isResizing /\ isPanning' = isPanning
          /\ dragOffset' = dragOffset /\ resizeStart' = resizeStart
          /\ lastPanPos' = lastPanPos]_vars

\* A pointer-move during play was ignored although a drag was under way
\* when Play was pressed
C31_Witness ==
    /\ isPlaying /\ isDragging /\ selectedEntityId # 0
    /\ trace = << Ev(0, "move", 0, "ignored") >>

-----------------------------------------------------------------------------
(* Keyboard and mouse runs with mouse moves, across play sessions *)

MouseMove == \E p \in { << 0, 0 >>, << 10, 20 >> } : handleMouseMove(p[1], p[2])

NextKeys ==
    Play \/ Stop \/ TickSceneInput \/ TickGameInput \/ KeyDown \/ KeyUp \/ MouseDown
    \/ MouseUp \/ MouseMove

SpecKeys == InitInput /\ [][NextKeys]_vars

\* No query of the InputManager answers true
NothingReported(in) ==
    /\ \A k \in Keys : ~isKeyDown(in, k) /\ ~isKeyPressed(in, k)
    /\ \A b \in Buttons : ~isMouseButtonDown(in, b) /\ ~isMouseButtonPressed(in, b)

\* The four sets are empty
SetsEmpty(in) ==
    /\ in.keysDown = {} /\ in.keysPressed = {}
    /\ in.mouseButtonsDown = {} /\ in.mouseButtonsPressed = {}

\* C32: a disabled InputManager answers false to every query and no key or
\* mouse event changes it; disabling empties the down and pressed sets, so
\* that right after re-enabling nothing is reported, and a key or button is
\* reported again only from a step that is a key-down or mouse-down of it
\* while enabled.
C32_DisabledReportsNothing ==
    /\ [](~input.isEnabled => NothingReported(input) /\ SetsEmpty(input))
    /\ [](input.isEnabled = (host = "editor" /\ isPlaying))
    /\ [][~input.isEnabled /\ ~input'.isEnabled => input' = input]_vars
    /\ [][~input.isEnabled /\ input'.isEnabled =>
            NothingReported(input') /\ SetsEmpty(input')]_vars
    /\ [][\A k \in Keys : ~isKeyDown(input, k) /\ isKeyDown(input', k) =>
            input.isEnabled /\ input' = [input EXCEPT !.keysDown = @ \cup { k },
                                                     !.keysPressed = @ \cup { k }]]_vars
    /\ [][\A b \in Buttons : ~isMouseButtonDown(input, b) /\ isMouseButtonDown(input', b) =>
            input.isEnabled /\ input' = [input EXCEPT !.mouseButtonsDown = @ \cup { b },
                                                     !.mouseButtonsPressed = @ \cup { b }]]_vars

\* A second play session has just begun: the mouse position of the first
\* session is still held, the sets are empty
C32_Witness ==
    /\ isPlaying /\ frames > 0 /\ elapsed = 0
    /\ input.isEnabled /\ SetsEmpty(input)
    /\ input.mousePosition = [x |-> 10, y |-> 20]

-----------------------------------------------------------------------------
(* Pool runs: a script's calls on one ObjectPool, released objects being any *)
(* that get() has returned                                                   *)

MaxPoolCalls == 5

MaxInitialSize == 2

InitObjects == InitEditor(ScenePlayer, DefaultCanvas) \/ InitExport(ScenePlayer, DefaultCanvas)

Construct ==
    \E n \in 0 .. MaxInitialSize :
        ~objectPool.built /\ objectPool' = ObjectPoolNew(n) /\ PoolOnly

Get ==
    /\ objectPool.built /\ objectPool.calls < MaxPoolCalls
    /\ objectPool' = get(objectPool) /\ PoolOnly

\* get() has returned the object at least once
HandedOut(o, obj) == obj > o.initialSize \/ o.resets[obj] > 0

Release ==
    \E obj \in 1 .. objectPool.next - 1 :
        /\ objectPool.built /\ objectPool.calls < MaxPoolCalls
        /\ HandedOut(objectPool, obj)
        /\ objectPool' = release(objectPool, obj) /\ PoolOnly

Clear ==
    /\ objectPool.built /\ objectPool.calls < MaxPoolCalls
    /\ objectPool' = clear(objectPool) /\ PoolOnly

NextObjects == Construct \/ Get \/ Release \/ Clear

SpecObjects == InitObjects /\ [][NextObjects]_vars

\* The step is a get()
IsGet == objectPool'.last.op = "get" /\ objectPool'.calls = objectPool.calls + 1

\* get() served from the pool: the last object of the pool leaves it and is
\* returned, reset once more; the others stay in their order
ServedFromPool ==
    /\ objectPool'.last.obj = objectPool.pool[Len(objectPool.pool)]
    /\ objectPool'.pool = SubSeq(objectPool.pool, 1, Len(objectPool.pool) - 1)
    /\ objectPool'.last.reset
    /\ objectPool'.resets[objectPool'.last.obj] = objectPool.resets[objectPool'.last.obj] + 1

\* get() on an empty pool: an object the factory had not made before, and
\* no reset
ServedFromFactory ==
    /\ objectPool'.last.obj = objectPool.next
    /\ objectPool'.pool = << >>
    /\ ~objectPool'.last.reset
    /\ objectPool'.resets[objectPool'.last.obj] = 0

GetAsSpecified ==
    [][IsGet => IF Len(objectPool.pool) > 0 THEN ServedFromPool ELSE ServedFromFactory]_vars

\* C33 as stated: get() pops and resets the newest object of a non-empty
\* pool and asks the factory otherwise, and the pool's size is initialSize
\* plus the releases minus the gets served from the pool since the last
\* clear.
C33_SizeCountsInitialSize ==
    /\ GetAsSpecified
    /\ [](objectPool.built =>
             Len(objectPool.pool) =
                 objectPool.initialSize + objectPool.releases - objectPool.served)

\* C33: get() pops and resets the newest object of a non-empty pool and
\* asks the factory, without reset, otherwise; the pool's size is the
\* releases minus the gets served from the pool since the last clear, plus
\* initialSize only as long as clear() was never called.
C33_SizeSinceClear ==
    /\ GetAsSpecified
    /\ [](objectPool.built =>
             Len(objectPool.pool) =
                 (IF objectPool.cleared THEN 0 ELSE objectPool.initialSize)
                 + objectPool.releases - objectPool.served)

\* A pool built with two objects was cleared, took a release, and served it
C33_Witness ==
    /\ objectPool.initialSize = 2 /\ objectPool.cleared
    /\ objectPool.last = [op |-> "get", obj |-> 1, reset |-> TRUE]
    /\ objectPool.releases = 1 /\ objectPool.served = 1
    /\ objectPool.pool = << >>

\* The objects of the pool are distinct
PoolDistinct ==
    \A i, j \in 1 .. Len(objectPool.pool) : objectPool.pool[i] = objectPool.pool[j] => i = j

\* C40: no object is held by two callers of get() at once, and the pool
\* never contains the same object twice, for any sequence of get and
\* release calls.
C40_OneHolderPerObject ==
    /\ PoolDistinct
    /\ \A obj \in DOMAIN objectPool.holders : objectPool.holders[obj] <= 1

-----------------------------------------------------------------------------
(* Sound runs: a script's calls on the SoundManager, the user's first        *)
(* gesture, loads that end or fail, and sources that play to their end       *)

MaxSources == 3

MaxLoadFailures == 1

SoundIds == { "theme", "jump" }

InitSound == InitEditor(ScenePlayer, DefaultCanvas) \/ InitExport(ScenePlayer, DefaultCanvas)

HasRoom == Len(sound.sources) < MaxSources

SoundInit == ~sound.audioContext /\ sound' = [init(sound) EXCEPT !.last = "init"]
             /\ UNCHANGED logs /\ SoundOnly

Gesture == sound.listening /\ HasRoom /\ sound' = unlock(sound) /\ UNCHANGED logs /\ SoundOnly

LoadSound ==
    \E id \in SoundIds :
        /\ id \notin sound.loading \cup sound.buffers
        /\ sound' = loadSound(sound, id) /\ UNCHANGED logs /\ SoundOnly

\* fetch and decodeAudioData resolved: this.buffers.set(id, audioBuffer)
LoadDone ==
    \E id \in sound.loading :
        /\ sound' = [sound EXCEPT !.loading = @ \ { id }, !.buffers = @ \cup { id },
                                  !.last = "loaded"]
        /\ UNCHANGED logs /\ SoundOnly

\* fetch or decodeAudioData rejected: the catch logs the error
LoadFailed ==
    \E id \in sound.loading :
        /\ Len(logs) < MaxLoadFailures
        /\ sound' = [sound EXCEPT !.loading = @ \ { id }, !.last = "failed"]
        /\ logs' = Append(logs, << "sound", id >>)
        /\ SoundOnly

PlaySFX ==
    \E id \in SoundIds :
        HasRoom /\ sound' = playSFX(sound, id) /\ sound' # sound /\ UNCHANGED logs /\ SoundOnly

PlayBGM ==
    \E id \in SoundIds, loop \in BOOLEAN :
        HasRoom /\ sound' = playBGM(sound, id, loop) /\ sound' # sound
        /\ UNCHANGED logs /\ SoundOnly

StopBGM == sound' = stopBGM(sound) /\ sound' # sound /\ UNCHANGED logs /\ SoundOnly

\* A source that does not loop has played its buffer to the end
SourceEnds ==
    \E k \in DOMAIN sound.sources :
        /\ sound.sources[k].playing /\ ~sound.sources[k].loop
        /\ sound' = [sound EXCEPT !.sources[k].playing = FALSE, !.last = "ended"]
        /\ UNCHANGED logs /\ SoundOnly

NextSound ==
    SoundInit \/ Gesture \/ LoadSound \/ LoadDone \/ LoadFailed \/ PlaySFX \/ PlayBGM
    \/ StopBGM \/ SourceEnds

SpecSound == InitSound /\ [][NextSound]_vars

\* The background-music sources that are playing
ActiveBGM(s) == { k \in DOMAIN s.sources : s.sources[k].kind = "bgm" /\ s.sources[k].playing }

\* The sources the step started
Started == { k \in DOMAIN sound'.sources : k > Len(sound.sources) }

\* C34: at most one background-music source is playing; a playBGM that
\* starts a source leaves it the only one; stopBGM leaves none; and a
\* playBGM or playSFX starts a source only when the context is unlocked and
\* the id has a loaded buffer.
C34_AtMostOneBGM ==
    /\ [](Cardinality(ActiveBGM(sound)) <= 1)
    /\ [](ActiveBGM(sound) \subseteq { sound.bgmSource })
    /\ [][sound'.last = "stopBGM" /\ sound' # sound => ActiveBGM(sound') = {}]_vars
    /\ [][\A k \in Started :
            sound'.sources[k].kind \in { "bgm", "sfx" } =>
                /\ sound.audioContext /\ sound.isUnlocked
                /\ sound'.sources[k].id \in sound.buffers
                /\ sound'.sources[k].kind = "bgm" => ActiveBGM(sound') = { k }]_vars
    /\ [][sound'.last \in { "playBGM", "playSFX" }
            /\ (~sound.isUnlocked \/ sound.buffers = {}) => Started = {}]_vars

\* A second playBGM has replaced a looping theme that was playing
C34_Witness ==
    /\ sound.last = "playBGM" /\ sound.bgmSource = 3
    /\ sound.sources[2].kind = "bgm" /\ sound.sources[2].loop /\ ~sound.sources[2].playing
    /\ ActiveBGM(sound) = { 3 }

-----------------------------------------------------------------------------
(* Twin runs: from each state of a run of either host, one frame as the      *)
(* editor takes it and the same frame as the exported page takes it          *)

MaxTwinFrames == 4

\* An emitter of particles living 0.5 s, and an entity whose script moves it
\* by 100 * dt and whose rotation is animated from 0 to 10 over a second
SceneTwin ==
    SceneOf(<< [Entity(1, "emitter", 400, 300) EXCEPT
                   !.particles = Emitter(3, 10, Second \div 2, 0)],
               [Entity(2, "mover", 0, 0) EXCEPT
                   !.script = Script("move"),
                   !.anims = << Anim(Rotation, UnitRamp, TRUE, 0) >>] >>)

InitTwin == InitEditor(SceneTwin, DefaultCanvas) \/ InitExport(SceneTwin, DefaultCanvas)

TwinDraws == [emit |-> {0, 750}, angle |-> {500}, speed |-> {500}, life |-> {500}]

TickEditorTwin ==
    \E rawDt \in RawDts :
        \E rnd \in RndChoices(entitiesRef, particlesRef, Min(rawDt, DtCap), TwinDraws) :
            frames < MaxTwinFrames /\ EditorTick(rawDt, rnd)

TickExportTwin ==
    \E rawDt \in RawDts :
        \E rnd \in RndChoices(entitiesRef, particlesRef, rawDt, TwinDraws) :
            frames < MaxTwinFrames /\ ExportTick(rawDt, rnd)

NextTwin == Play \/ Stop \/ TickEditorTwin \/ TickExportTwin

SpecTwin == InitTwin /\ [][NextTwin]_vars

\* The pass over the entities of this state with the dt a host hands it
PassWith(dt, rnd, strict) ==
    UpdateEntities([ents |-> entitiesRef, pools |-> particlesRef, logs |-> logs,
                    trace |-> << >>, threw |-> FALSE],
                   1, dt, rnd, matterBodies, strict)

\* What the comparison looks at: every animation's cursor and flag, and
\* where the script, which moves by 100 * dt, has put the entity
Observed(st) ==
    [i \in DOMAIN st.ents |->
        [anims |-> [j \in DOMAIN st.ents[i].anims |->
                       << st.ents[i].anims[j].currentTime, st.ents[i].anims[j].playing >>],
         x |-> GetNum(st.ents[i], PosX)]]

EditorSees(rawDt) ==
    { Observed(PassWith(Min(rawDt, DtCap), rnd, TRUE)) :
        rnd \in RndChoices(entitiesRef, particlesRef, Min(rawDt, DtCap), TwinDraws) }

ExportSees(rawDt) ==
    { Observed(PassWith(rawDt, rnd, FALSE)) :
        rnd \in RndChoices(entitiesRef, particlesRef, rawDt, TwinDraws) }

\* The particles of the emitter's pool after the aging of one step
Aged(dt) == AgePool(PoolOf(particlesRef, 1), Len(PoolOf(particlesRef, 1)), dt)

\* C35: from the same state and for the same frame interval, frames longer
\* than 0.1 s included, the editor's step and the exported page's step
\* leave every animation with the same cursor and playing flag, age the
\* particles by the same amount and hand the same dt to the scripts.
C35_SameStepInBothHosts ==
    \A rawDt \in RawDts :
        /\ EditorSees(rawDt) = ExportSees(rawDt)
        /\ Aged(Min(rawDt, DtCap)) = Aged(rawDt)

-----------------------------------------------------------------------------
(* Particles across play sessions, on the drain runs *)

\* C36: when playback starts in the editor every pool is empty, and the
\* draw() calls of a stopped editor draw no particle.
C36_PoolsEmptyAtPlayStart ==
    /\ [][PlayStarts => \A id \in DOMAIN particlesRef' : Len(particlesRef'[id]) = 0]_vars
    /\ [](host = "editor" /\ ~isPlaying =>
             \A k \in DOMAIN drawn : drawn[k].particles = 0)

-----------------------------------------------------------------------------
(* Particle lifetimes: emitters whose lifetimeRange is small, twice the      *)
(* lifetime, and three times the lifetime                                    *)

MaxLifeFrames == 3

\* Lifetime 0.1 s, with a lifetimeRange of 0.1 s, 0.2 s and 0.3 s
LifeRanges == { Second \div 10, 2 * (Second \div 10), 3 * (Second \div 10) }

SceneLife(range) ==
    SceneOf(<< [Entity(1, "emitter", 400, 300) EXCEPT
                   !.particles = Emitter(3, 20, Second \div 10, range)] >>)

LifeDraws == [emit |-> {0}, angle |-> {500}, speed |-> {500}, life |-> {0, 500, 999}]

InitLife ==
    \E range \in LifeRanges :
        InitEditor(SceneLife(range), DefaultCanvas) \/ InitExport(SceneLife(range), DefaultCanvas)

TickEditorLife ==
    \E rawDt \in AnimDts :
        \E rnd \in RndChoices(entitiesRef, particlesRef, Min(rawDt, DtCap), LifeDraws) :
            frames < MaxLifeFrames /\ EditorTick(rawDt, rnd)

TickExportLife ==
    \E rawDt \in AnimDts :
        \E rnd \in RndChoices(entitiesRef, particlesRef, rawDt, LifeDraws) :
            frames < MaxLifeFrames /\ ExportTick(rawDt, rnd)

NextLife == Play \/ Stop \/ TickEditorLife \/ TickExportLife

SpecLife == InitLife /\ [][NextLife]_vars

\* C37: after every simulation step every particle in every pool has
\* 0 < life <= maxLife, whatever the emitter's lifetime and lifetimeRange.
C37_LifeWithinMaxLife ==
    \A id \in DOMAIN particlesRef :
        \A k \in DOMAIN particlesRef[id] :
            /\ 0 < particlesRef[id][k].life
            /\ particlesRef[id][k].life <= particlesRef[id][k].maxLife

-----------------------------------------------------------------------------
(* Pointer-up on the Scene view's canvas, on the locked runs *)

\* handlePointerUp ran on the Scene view's canvas
PointerUpEvent ==
    /\ events' = events + 1
    /\ trace'[1].what = "up" /\ trace'[1].how # "readonly"

\* C38: after every pointer-up event on the editor canvas isDragging,
\* isResizing and isPanning are all cleared, in any interleaving of pointer
\* events with play and stop.
C38_IdleAfterPointerUp == [][PointerUpEvent => Modes' = {}]_vars

-----------------------------------------------------------------------------
(* Grab runs: the scene of the pointer runs with the pointer held at one     *)
(* client position, inside hud and lamp                                      *)

MaxGrabEvents == 5

GrabPoint == << 430, 300 >>

GrabDown == events < MaxGrabEvents /\ handlePointerDown(GrabPoint[1], GrabPoint[2])

GrabMove == events < MaxGrabEvents /\ handlePointerMove(GrabPoint[1], GrabPoint[2])

GrabUp == events < MaxGrabEvents /\ handlePointerUp

\* A click in the Hierarchy
GrabSelect == \E id \in {1, 2, 3} : ~isDragging /\ id # selectedEntityId /\ SelectEntity(id)

NextGrab == GrabDown \/ GrabMove \/ GrabUp \/ GrabSelect \/ Play \/ Stop

SpecGrab == InitPointer /\ [][NextGrab]_vars

\* The last event was a pointer-down that started a drag
JustGrabbed == trace = << Ev(0, "down", selectedEntityId, "drag") >>

\* C39: a pointer-down on an entity followed by a pointer-move at the same
\* pointer position leaves the entity's position unchanged, whether or not
\* the entity was selected before the pointer-down.
C39_MoveAtGrabPointKeepsPosition ==
    [][JustGrabbed /\ handlePointerMove(GrabPoint[1], GrabPoint[2]) =>
          entitiesRef' = entitiesRef]_vars
====
